---- MODULE Spec2Model ----
(***************************************************************************)
(* Model of the lace LC-3 toolchain: the execution engine (runtime.rs,     *)
(* traps.rs) and the interactive debugger (debugger/mod.rs).               *)
(*                                                                         *)
(* Machine words are 16-bit unsigned integers (0..65535).  Memory is kept  *)
(* as a sparse map: an address absent from the map holds 0, as in the      *)
(* zero-initialised array of RunState::from_raw.                           *)
(***************************************************************************)
EXTENDS Integers, Sequences, FiniteSets, TLC

(***************************************************************************)
(* Bounds of the model.                                                    *)
(***************************************************************************)
\* Largest count the operator gives to the step command.
MaxStep == 2
\* Cap on the instructions executed between two prompts.
MaxInstr == 5
\* Number of lines the command source holds before end-of-input.
MaxLines == 3

(***************************************************************************)
(* 16-bit arithmetic.                                                      *)
(***************************************************************************)
Word == 65536

RECURSIVE BitAndN(_, _, _)
BitAndN(a, b, n) ==
    IF n = 0 THEN 0
    ELSE (IF a % 2 = 1 /\ b % 2 = 1 THEN 1 ELSE 0)
         + 2 * BitAndN(a \div 2, b \div 2, n - 1)

RECURSIVE BitOrN(_, _, _)
BitOrN(a, b, n) ==
    IF n = 0 THEN 0
    ELSE (IF a % 2 = 1 \/ b % 2 = 1 THEN 1 ELSE 0)
         + 2 * BitOrN(a \div 2, b \div 2, n - 1)

\* a & b, a | b, !a, a >> n, a << n on u16
BitAnd(a, b) == BitAndN(a, b, 16)
BitOr(a, b) == BitOrN(a, b, 16)
BitNot(a) == (Word - 1) - a
Shr(a, n) == a \div (2 ^ n)
Shl(a, n) == (a * (2 ^ n)) % Word
WrapAdd(a, b) == (a + b) % Word

\* u16 reinterpreted as i16, and back
AsI16(u) == IF u >= 32768 THEN u - Word ELSE u
AsU16(i) == i % Word

(***************************************************************************)
(* RunState: [pc, reg, mem, flag].                                         *)
(***************************************************************************)
FlagN == 4
FlagZ == 2
FlagP == 1
FlagUninit == 0

DeviceSpace == 65024
HaltAddress == 65535

InitialReg == [r \in 0..7 |-> IF r = 7 THEN 65023 ELSE 0]

\* Outcome of a call of the engine: the new state, or a panic of the
\* process, or a call that never returns
Ok(s) == [ok |-> TRUE, st |-> s]
Panic(s) == [ok |-> FALSE, st |-> s]
Hang(s) == [ok |-> FALSE, st |-> s, hangs |-> TRUE]

\* no state: from_raw panicked before it built one
NoState == [pc |-> 0, reg |-> InitialReg, mem |-> <<>>, flag |-> FlagUninit]

\* RunState::from_raw: raw[0] is the origin, the rest is loaded at the
\* origin; the length that is tested is that of raw, the origin word
\* included
from_raw(orig, image) ==
    IF orig + (Len(image) + 1) > Word THEN Panic(NoState)
    ELSE Ok([pc |-> orig,
             reg |-> InitialReg,
             mem |-> [a \in {orig + i - 1 :
                               i \in {j \in 1..Len(image) : image[j] # 0}}
                         |-> image[a - orig + 1]],
             flag |-> FlagUninit])

\* the states from_raw builds of the images that fit
Loaded(orig, images) ==
    {r.st : r \in {q \in {from_raw(orig, image) : image \in images} : q.ok}}

mem(s, addr) == IF addr \in DOMAIN s.mem THEN s.mem[addr] ELSE 0

mem_set(s, addr, val) ==
    IF val = 0
    THEN [s EXCEPT !.mem = [a \in (DOMAIN s.mem) \ {addr} |-> s.mem[a]]]
    ELSE [s EXCEPT !.mem = [a \in (DOMAIN s.mem) \cup {addr} |->
                               IF a = addr THEN val ELSE s.mem[a]]]

reg_set(s, r, val) == [s EXCEPT !.reg[r] = val]

\* faulty variant: the low bits are kept and nothing is extended
s_ext_zero_extended(val, bits) == BitAnd(val, Shl(1, bits) - 1)

s_ext(val, bits) ==
    LET sign == BitAnd(val, Shl(1, bits - 1))
        low == BitAnd(val, Shl(1, bits) - 1)
        sign_extension == WrapAdd(BitNot(sign), 1)
    IN  BitOr(low, sign_extension)

set_flags(s, val) ==
    [s EXCEPT !.flag = IF AsI16(val) < 0 THEN FlagN
                       ELSE IF AsI16(val) = 0 THEN FlagZ ELSE FlagP]

\* `*self.reg(7) -= 1`: underflow panics when the build checks overflow
push_val(s, val, chk) ==
    IF s.reg[7] = 0 /\ chk THEN Panic(s)
    ELSE LET sp == (s.reg[7] - 1) % Word
         IN  Ok(mem_set(reg_set(s, 7, sp), sp, val))

\* returns the popped value with the state; `*self.reg(7) += 1` may overflow
pop_val(s, chk) ==
    LET sp == s.reg[7]
    IN  [ok |-> ~(sp = Word - 1 /\ chk),
         val |-> mem(s, sp),
         st |-> reg_set(s, 7, (sp + 1) % Word)]

stack(s, instr, chk) ==
    IF BitAnd(instr, 2048) # 0
    THEN IF BitAnd(instr, 1024) # 0
         THEN LET p == push_val(s, s.pc, chk)
              IN  IF p.ok
                  THEN Ok([p.st EXCEPT !.pc = WrapAdd(s.pc, s_ext(instr, 10))])
                  ELSE p
         ELSE LET p == pop_val(s, chk)
              IN  [ok |-> p.ok, st |-> [p.st EXCEPT !.pc = p.val]]
    ELSE LET r == BitAnd(Shr(instr, 6), 7)
         IN  IF BitAnd(instr, 1024) # 0
             THEN push_val(s, s.reg[r], chk)
             ELSE LET p == pop_val(s, chk)
                  IN  [ok |-> p.ok, st |-> reg_set(p.st, r, p.val)]

add(s, instr) ==
    LET dr == BitAnd(Shr(instr, 9), 7)
        sr == BitAnd(Shr(instr, 6), 7)
        val1 == s.reg[sr]
        val2 == IF BitAnd(instr, 32) = 0 THEN s.reg[BitAnd(instr, 7)]
                ELSE s_ext(instr, 5)
        res == WrapAdd(val1, val2)
    IN  reg_set(set_flags(s, res), dr, res)

and(s, instr) ==
    LET dr == BitAnd(Shr(instr, 9), 7)
        sr == BitAnd(Shr(instr, 6), 7)
        val1 == s.reg[sr]
        val2 == IF BitAnd(instr, 32) = 0 THEN s.reg[BitAnd(instr, 7)]
                ELSE s_ext(instr, 5)
        res == BitAnd(val1, val2)
    IN  reg_set(set_flags(s, res), dr, res)

br(s, instr) ==
    LET flag == BitAnd(Shr(instr, 9), 7)
    IN  IF BitAnd(s.flag, flag) # 0
        THEN [s EXCEPT !.pc = WrapAdd(s.pc, s_ext(instr, 9))]
        ELSE s

jmp(s, instr) == [s EXCEPT !.pc = s.reg[BitAnd(Shr(instr, 6), 7)]]

jsr(s, instr) ==
    LET t == reg_set(s, 7, s.pc)
    IN  IF BitAnd(instr, 2048) = 0
        THEN [t EXCEPT !.pc = t.reg[BitAnd(Shr(instr, 6), 7)]]
        ELSE [t EXCEPT !.pc = WrapAdd(s.pc, s_ext(instr, 11))]

ld(s, instr) ==
    LET dr == BitAnd(Shr(instr, 9), 7)
        val == mem(s, WrapAdd(s.pc, s_ext(instr, 9)))
    IN  set_flags(reg_set(s, dr, val), val)

ldi(s, instr) ==
    LET dr == BitAnd(Shr(instr, 9), 7)
        ptr == mem(s, WrapAdd(s.pc, s_ext(instr, 9)))
        val == mem(s, ptr)
    IN  set_flags(reg_set(s, dr, val), val)

ldr(s, instr) ==
    LET dr == BitAnd(Shr(instr, 9), 7)
        ptr == s.reg[BitAnd(Shr(instr, 6), 7)]
        val == mem(s, WrapAdd(ptr, s_ext(instr, 6)))
    IN  set_flags(reg_set(s, dr, val), val)

lea(s, instr) ==
    LET dr == BitAnd(Shr(instr, 9), 7)
        val == WrapAdd(s.pc, s_ext(instr, 9))
    IN  set_flags(reg_set(s, dr, val), val)

not(s, instr) ==
    LET dr == BitAnd(Shr(instr, 9), 7)
        val == BitNot(s.reg[BitAnd(Shr(instr, 6), 7)])
    IN  set_flags(reg_set(s, dr, val), val)

st(s, instr) ==
    mem_set(s, WrapAdd(s.pc, s_ext(instr, 9)), s.reg[BitAnd(Shr(instr, 9), 7)])

sti(s, instr) ==
    LET ptr == mem(s, WrapAdd(s.pc, s_ext(instr, 9)))
    IN  mem_set(s, ptr, s.reg[BitAnd(Shr(instr, 9), 7)])

str(s, instr) ==
    LET ptr == s.reg[BitAnd(Shr(instr, 6), 7)]
    IN  mem_set(s, WrapAdd(ptr, s_ext(instr, 6)), s.reg[BitAnd(Shr(instr, 9), 7)])

\* Traps::default registers vectors 0x20..0x27
TrapGetc == 32
TrapOut == 33
TrapPuts == 34
TrapIn == 35
TrapPutsp == 36
TrapHaltVect == 37
TrapPutn == 38
TrapReg == 39

trap_halt(s) == [s EXCEPT !.pc = HaltAddress]

\* read_input at the end of the input: the unwrap of the read panics
EndOfInput == -1

\* trap_getc, trap_in: `inb` is what read_input finds
trap_read(s, inb) ==
    IF inb = EndOfInput THEN Panic(s) ELSE Ok(reg_set(s, 0, inb))

\* the word ends the string: its low byte is NUL, or either of its bytes
\* when the string is packed
ends_string(word, packed) ==
    \/ BitAnd(word, 255) = 0
    \/ packed /\ Shr(word, 8) = 0

\* trap_puts, trap_putsp: `for addr in *state.reg(0)..` up to the word that
\* ends the string.  The range computes the address after the one it hands
\* out: at 0xFFFF that addition overflows, which panics where overflow is
\* checked (chk) and wraps to address 0 where it is not; a memory without
\* any such word is printed for ever
trap_put_string(s, packed, chk) ==
    IF \E addr \in s.reg[0]..(Word - 2) : ends_string(mem(s, addr), packed)
    THEN Ok(s)
    ELSE IF chk THEN Panic(s)
    ELSE IF \E addr \in (0..(s.reg[0] - 1)) \cup {Word - 1} :
                ends_string(mem(s, addr), packed)
    THEN Ok(s)
    ELSE Hang(s)

\* RunState::trap: the function of the vector, a panic without one
trap(s, instr, chk, inb) ==
    LET trap_vect == BitAnd(instr, 255)
    IN  IF trap_vect \in {TrapGetc, TrapIn} THEN trap_read(s, inb)
        ELSE IF trap_vect = TrapHaltVect THEN Ok(trap_halt(s))
        ELSE IF trap_vect = TrapPuts THEN trap_put_string(s, FALSE, chk)
        ELSE IF trap_vect = TrapPutsp THEN trap_put_string(s, TRUE, chk)
        ELSE IF trap_vect \in {TrapOut, TrapPutn, TrapReg} THEN Ok(s)
        ELSE Panic(s)

\* OP_TABLE[opcode](self, instr); rti is todo!()
op_table(s, instr, chk, inb) ==
    LET opcode == Shr(instr, 12)
    IN  CASE opcode = 0 -> Ok(br(s, instr))
          [] opcode = 1 -> Ok(add(s, instr))
          [] opcode = 2 -> Ok(ld(s, instr))
          [] opcode = 3 -> Ok(st(s, instr))
          [] opcode = 4 -> Ok(jsr(s, instr))
          [] opcode = 5 -> Ok(and(s, instr))
          [] opcode = 6 -> Ok(ldr(s, instr))
          [] opcode = 7 -> Ok(str(s, instr))
          [] opcode = 8 -> Panic(s)
          [] opcode = 9 -> Ok(not(s, instr))
          [] opcode = 10 -> Ok(ldi(s, instr))
          [] opcode = 11 -> Ok(sti(s, instr))
          [] opcode = 12 -> Ok(jmp(s, instr))
          [] opcode = 13 -> stack(s, instr, chk)
          [] opcode = 14 -> Ok(lea(s, instr))
          [] opcode = 15 -> trap(s, instr, chk, inb)

\* one iteration of the body of RunState::run, past the device-space test
run_step(s, chk, inb) ==
    LET instr == mem(s, s.pc)
    IN  op_table([s EXCEPT !.pc = s.pc + 1], instr, chk, inb)

(***************************************************************************)
(* Debugger (debugger/mod.rs).                                             *)
(***************************************************************************)
WaitForAction == [kind |-> "WaitForAction"]
Step(count) == [kind |-> "Step", count |-> count]
NextTo(return_addr) == [kind |-> "Next", return_addr |-> return_addr]
Continue == [kind |-> "Continue"]
Finish == [kind |-> "Finish"]

NoAddress == -1

\* faulty variant: the base register of JMP is read from bits 2..0
RelevantInstr_low_bits(instr) ==
    LET opcode == Shr(instr, 12)
    IN  IF opcode = 12 /\ BitAnd(instr, 7) = 7 THEN "Ret"
        ELSE IF opcode = 15 /\ BitAnd(instr, 255) = 37 THEN "TrapHalt"
        ELSE "None"

\* impl TryFrom<u16> for RelevantInstr
RelevantInstr(instr) ==
    LET opcode == Shr(instr, 12)
    IN  IF opcode = 12 /\ BitAnd(Shr(instr, 6), 7) = 7 THEN "Ret"
        ELSE IF opcode = 15 /\ BitAnd(instr, 255) = 37 THEN "TrapHalt"
        ELSE "None"

\* Breakpoints: a list of [address, predefined]
breakpoints_contains(bps, address) ==
    \E i \in 1..Len(bps) : bps[i].address = address

\* Breakpoints::get found none
NoBreakpoint == [address |-> NoAddress, predefined |-> FALSE]

\* Breakpoints::get: the first breakpoint with the address, if there is one
breakpoints_get(bps, address) ==
    IF \A i \in 1..Len(bps) : bps[i].address # address THEN NoBreakpoint
    ELSE bps[CHOOSE i \in 1..Len(bps) :
                 /\ bps[i].address = address
                 /\ \A j \in 1..(i - 1) : bps[j].address # address]

breakpoints_insert(bps, breakpoint) == Append(bps, breakpoint)

\* faulty variant: only the first breakpoint with the address goes
breakpoints_remove_first(bps, address) ==
    IF \E i \in 1..Len(bps) : bps[i].address = address
    THEN LET i == CHOOSE i \in 1..Len(bps) :
                      /\ bps[i].address = address
                      /\ \A j \in 1..(i - 1) : bps[j].address # address
         IN  SubSeq(bps, 1, i - 1) \o SubSeq(bps, i + 1, Len(bps))
    ELSE bps

\* Breakpoints::remove, the list it leaves
breakpoints_remove(bps, address) ==
    SelectSeq(bps, LAMBDA b : b.address # address)

\* Breakpoints::remove, the bool it returns
breakpoints_removed(bps, address) ==
    Len(bps) # Len(breakpoints_remove(bps, address))

\* faulty variant: the halt sentinel counted as device space
in_device_space_inclusive(pc) == pc >= DeviceSpace

\* wait_for_action, the device-space test on entry
in_device_space(pc) == pc >= DeviceSpace /\ pc < HaltAddress

\* wait_for_action, the breakpoint test: a breakpoint at the pc that is not
\* the one the previous check paused on
breakpoint_hit(bps, current_breakpoint, pc) ==
    breakpoints_contains(bps, pc) /\ current_breakpoint # pc

\* faulty variant: the marker survives a check that does not pause
break_check_sticky(bps, current_breakpoint, stat, pc, instr) ==
    IF breakpoint_hit(bps, current_breakpoint, pc)
    THEN [current_breakpoint |-> pc, status |-> WaitForAction]
    ELSE [current_breakpoint |-> current_breakpoint,
          status |-> IF instr = "TrapHalt" THEN WaitForAction ELSE stat]

\* faulty variant: HALT does not force WaitForAction
break_check_no_halt(bps, current_breakpoint, stat, pc, instr) ==
    IF breakpoint_hit(bps, current_breakpoint, pc)
    THEN [current_breakpoint |-> pc, status |-> WaitForAction]
    ELSE [current_breakpoint |-> NoAddress, status |-> stat]

\* faulty variant: a pause on a breakpoint leaves no marker
break_check_unmarked(bps, current_breakpoint, stat, pc, instr) ==
    IF breakpoint_hit(bps, current_breakpoint, pc)
    THEN [current_breakpoint |-> NoAddress, status |-> WaitForAction]
    ELSE [current_breakpoint |-> NoAddress,
          status |-> IF instr = "TrapHalt" THEN WaitForAction ELSE stat]

\* wait_for_action, from the breakpoint test to the call of
\* wait_for_single_action: the status and marker dispatch starts with
break_check(bps, current_breakpoint, stat, pc, instr) ==
    IF breakpoint_hit(bps, current_breakpoint, pc)
    THEN [current_breakpoint |-> pc, status |-> WaitForAction]
    ELSE [current_breakpoint |-> NoAddress,
          status |-> IF instr = "TrapHalt" THEN WaitForAction ELSE stat]

\* wait_for_single_action, one arm each; the result is the new status and
\* what the loop does next: return Proceed, or run the loop again
step_arm(stat) ==
    IF stat.count > 0
    THEN [status |-> Step(stat.count - 1), action |-> "Proceed"]
    ELSE [status |-> WaitForAction, action |-> "Proceed"]

next_arm(stat, pc) ==
    IF pc = stat.return_addr
    THEN [status |-> WaitForAction, action |-> "Loop"]
    ELSE [status |-> stat, action |-> "Proceed"]

\* faulty variant: Continue runs one instruction and falls back to the prompt
continue_arm_once(stat) == [status |-> WaitForAction, action |-> "Proceed"]

continue_arm(stat) == [status |-> stat, action |-> "Proceed"]

finish_arm(stat, instr) ==
    IF instr = "Ret"
    THEN [status |-> Step(0), action |-> "Proceed"]
    ELSE [status |-> stat, action |-> "Proceed"]

\* wait_for_single_action up to the point where it returns Proceed or has
\* to read a command ("Prompt": the WaitForAction arm calls next_action)
dispatch(stat, pc, instr) ==
    CASE stat.kind = "WaitForAction" -> [status |-> stat, action |-> "Prompt"]
      [] stat.kind = "Step" -> step_arm(stat)
      [] stat.kind = "Next" ->
            LET r == next_arm(stat, pc)
            IN  IF r.action = "Loop"
                THEN [status |-> r.status, action |-> "Prompt"]
                ELSE r
      [] stat.kind = "Continue" -> continue_arm(stat)
      [] stat.kind = "Finish" -> finish_arm(stat, instr)

(***************************************************************************)
(* Address resolution (resolve_location_address, resolve_label_address).   *)
(***************************************************************************)
\* the symbol table the assembler leaves behind: label -> recorded value
SymbolTable == [LOOP |-> 3]

Resolved(address) == [kind |-> "Some", address |-> address]
Unresolved == [kind |-> "None", address |-> NoAddress]
ResolvePanic == [kind |-> "Panic", address |-> NoAddress]

InI16(i) == i >= -32768 /\ i <= 32767
WrapI16(i) == AsI16(i % Word)

\* get_label_address on a given symbol table: the recorded value minus
\* one, as u16
get_label_address_in(table, name, chk) ==
    IF name \notin DOMAIN table THEN Unresolved
    ELSE IF table[name] = 0 /\ chk THEN ResolvePanic
    ELSE Resolved((table[name] - 1) % Word)

get_label_address(name, chk) == get_label_address_in(SymbolTable, name, chk)

\* resolve_label_address on a given symbol table: i16 arithmetic, which
\* panics on overflow in a build with overflow checks and wraps in a build
\* without
resolve_label_address_in(table, label, origin, chk) ==
    LET found == get_label_address_in(table, label.name, chk)
        orig == AsI16(origin)
        sum1 == AsI16(found.address) + label.offset
        sum2 == WrapI16(sum1) + orig
        address == WrapI16(sum2)
    IN  IF found.kind # "Some" THEN found
        ELSE IF chk /\ (~InI16(sum1) \/ ~InI16(sum2)) THEN ResolvePanic
        ELSE IF address < orig \/ AsU16(address) >= DeviceSpace THEN Unresolved
        ELSE Resolved(AsU16(address))

resolve_label_address(label, origin, chk) ==
    resolve_label_address_in(SymbolTable, label, origin, chk)

resolve_location_address(s, location, origin, chk) ==
    CASE location.kind = "Address" -> Resolved(location.address)
      [] location.kind = "PC" -> Resolved(s.pc)
      [] location.kind = "Label" -> resolve_label_address(location, origin, chk)

(***************************************************************************)
(* Commands (next_action).                                                 *)
(***************************************************************************)
\* eval::eval: the instruction is executed on the live state at once
eval(s, instruction, chk, inb) == op_table(s, instruction, chk, inb)

\* the outcome of next_action: the debugger fields and machine state it
\* leaves, `result` (None, StopDebugger, ExitProgram; Panic when the
\* process aborts) and how the command's location resolved
Outcome(stat, bps, changed, s, result, resolved) ==
    [status |-> stat, breakpoints |-> bps, was_pc_changed |-> changed,
     st |-> s, result |-> result, resolved |-> resolved]

\* faulty variant: an unresolved location is written at address 0
set_command_unchecked(cmd, stat, bps, s, origin, chk) ==
    IF cmd.location.kind = "Register"
    THEN Outcome(stat, bps, FALSE,
                 reg_set(s, cmd.location.register, cmd.value), "None", "n/a")
    ELSE LET a == resolve_location_address(s, cmd.location, origin, chk)
         IN  IF a.kind = "Panic"
             THEN Outcome(stat, bps, FALSE, s, "Panic", a.kind)
             ELSE Outcome(stat, bps, FALSE,
                          mem_set(s, IF a.kind = "Some" THEN a.address ELSE 0,
                                  cmd.value),
                          "None", a.kind)

set_command(cmd, stat, bps, s, origin, chk) ==
    IF cmd.location.kind = "Register"
    THEN Outcome(stat, bps, FALSE,
                 reg_set(s, cmd.location.register, cmd.value), "None", "n/a")
    ELSE LET a == resolve_location_address(s, cmd.location, origin, chk)
         IN  IF a.kind = "Some"
             THEN Outcome(stat, bps, FALSE, mem_set(s, a.address, cmd.value),
                          "None", "Some")
             ELSE Outcome(stat, bps, FALSE, s,
                          IF a.kind = "Panic" THEN "Panic" ELSE "None", a.kind)

get_command(cmd, stat, bps, s, origin, chk) ==
    IF cmd.location.kind = "Register"
    THEN Outcome(stat, bps, FALSE, s, "None", "n/a")
    ELSE LET a == resolve_location_address(s, cmd.location, origin, chk)
         IN  Outcome(stat, bps, FALSE, s,
                     IF a.kind = "Panic" THEN "Panic" ELSE "None", a.kind)

\* faulty variant: no test for a breakpoint already at the address
break_add_command_unchecked(cmd, stat, bps, s, origin, chk) ==
    LET a == resolve_location_address(s, cmd.location, origin, chk)
    IN  IF a.kind = "Some"
        THEN Outcome(stat,
                     breakpoints_insert(bps, [address |-> a.address,
                                              predefined |-> FALSE]),
                     FALSE, s, "None", "Some")
        ELSE Outcome(stat, bps, FALSE, s,
                     IF a.kind = "Panic" THEN "Panic" ELSE "None", a.kind)

break_add_command(cmd, stat, bps, s, origin, chk) ==
    LET a == resolve_location_address(s, cmd.location, origin, chk)
    IN  IF a.kind = "Some"
        THEN Outcome(stat,
                     IF breakpoints_contains(bps, a.address) THEN bps
                     ELSE breakpoints_insert(bps, [address |-> a.address,
                                                  predefined |-> FALSE]),
                     FALSE, s, "None", "Some")
        ELSE Outcome(stat, bps, FALSE, s,
                     IF a.kind = "Panic" THEN "Panic" ELSE "None", a.kind)

break_remove_command(cmd, stat, bps, s, origin, chk) ==
    LET a == resolve_location_address(s, cmd.location, origin, chk)
    IN  IF a.kind = "Some"
        THEN Outcome(stat, breakpoints_remove(bps, a.address), FALSE, s,
                     "None", "Some")
        ELSE Outcome(stat, bps, FALSE, s,
                     IF a.kind = "Panic" THEN "Panic" ELSE "None", a.kind)

\* faulty variant: the count is not reduced by the instruction the issuing
\* call lets through
step_command_full_count(cmd, stat, bps, s, chk) ==
    Outcome(Step(cmd.count % Word), bps, TRUE, s, "None", "n/a")

step_command(cmd, stat, bps, s, chk) ==
    IF cmd.count = 0 /\ chk THEN Outcome(stat, bps, FALSE, s, "Panic", "n/a")
    ELSE Outcome(Step((cmd.count - 1) % Word), bps, TRUE, s, "None", "n/a")

next_command_arm(stat, bps, s, chk) ==
    IF s.pc = Word - 1 /\ chk THEN Outcome(stat, bps, FALSE, s, "Panic", "n/a")
    ELSE Outcome(NextTo((s.pc + 1) % Word), bps, TRUE, s, "None", "n/a")

eval_command(cmd, stat, bps, s, chk, inb) ==
    LET r == eval(s, cmd.instruction, chk, inb)
    IN  Outcome(stat, bps, TRUE, r.st, IF r.ok THEN "None" ELSE "Panic", "n/a")

\* faulty variant: the two actions exchanged
terminal_action_swapped(cmd) ==
    IF cmd.name = "Exit" THEN "StopDebugger" ELSE "ExitProgram"

\* the address the location of a command resolved to, if it has one
command_address(cmd, s, origin, chk) ==
    IF cmd.name \in {"Get", "Set", "BreakAdd", "BreakRemove"}
           /\ cmd.location.kind # "Register"
    THEN resolve_location_address(s, cmd.location, origin, chk).address
    ELSE NoAddress

\* faulty variant: reset exchanges the live state and the snapshot
initial_state_swapped(cmd, initial, s) ==
    IF cmd.name = "Reset" THEN s ELSE initial

\* the snapshot after a command: next_action only ever reads it (reset
\* clones it), and nothing else holds a reference to it
initial_state_after(cmd, initial, s) == initial

\* faulty variant: end-of-input is not turned into Quit
terminal_action_eof_ignored(cmd) ==
    CASE cmd.name = "Exit" -> "ExitProgram"
      [] cmd.name = "Eof" -> "None"
      [] OTHER -> "StopDebugger"

\* Quit (and end-of-input, which next_action turns into Quit) and Exit
terminal_action(cmd) ==
    IF cmd.name = "Exit" THEN "ExitProgram" ELSE "StopDebugger"

\* faulty variant: reset also drops the breakpoints
reset_command_clears(stat, bps, initial) ==
    Outcome(stat, <<>>, TRUE, initial, "None", "n/a")

\* faulty variant: reset also resumes the program
reset_command_resumes(stat, bps, initial) ==
    Outcome(Continue, bps, TRUE, initial, "None", "n/a")

reset_command(stat, bps, initial) ==
    Outcome(stat, bps, TRUE, initial, "None", "n/a")

\* next_action past its header, for the command `cmd` that next_command
\* returned (end-of-input is Quit); was_pc_changed is FALSE by then, and
\* the field of the outcome tells whether the command raised it
next_action(cmd, stat, bps, s, initial, chk, inb) ==
    CASE cmd.name \in {"Quit", "Eof", "Exit"} ->
            Outcome(stat, bps, FALSE, s, terminal_action(cmd), "n/a")
      [] cmd.name \in {"Help", "Registers", "Source", "BreakList"} ->
            Outcome(stat, bps, FALSE, s, "None", "n/a")
      [] cmd.name = "Continue" -> Outcome(Continue, bps, TRUE, s, "None", "n/a")
      [] cmd.name = "Finish" -> Outcome(Finish, bps, TRUE, s, "None", "n/a")
      [] cmd.name = "Step" -> step_command(cmd, stat, bps, s, chk)
      [] cmd.name = "Next" -> next_command_arm(stat, bps, s, chk)
      [] cmd.name = "Get" -> get_command(cmd, stat, bps, s, initial.pc, chk)
      [] cmd.name = "Set" -> set_command(cmd, stat, bps, s, initial.pc, chk)
      [] cmd.name = "Reset" -> reset_command(stat, bps, initial)
      [] cmd.name = "Eval" -> eval_command(cmd, stat, bps, s, chk, inb)
      [] cmd.name = "BreakAdd" ->
            break_add_command(cmd, stat, bps, s, initial.pc, chk)
      [] cmd.name = "BreakRemove" ->
            break_remove_command(cmd, stat, bps, s, initial.pc, chk)

(***************************************************************************)
(* Inputs of the model.                                                    *)
(***************************************************************************)
Origin == 12288

\* 0x3000 JSR +3 / ADD R0,R0,#0 / ADD R0,R0,#0 / HALT / ADD R0,R0,#0 / RET
CallProgram == <<18435, 4128, 4128, 61477, 4128, 49600>>
\* 0x3000 JSR -1: an instruction that leaves the pc on itself
SpinProgram == <<20479>>
\* 0x3000 JMP R7: R7 starts at 0xFDFF, next to the device space
LeaveProgram == <<49600>>
Programs == {CallProgram, SpinProgram, LeaveProgram}

\* none, one at the origin, and a list given with an address twice
BreakpointSeeds ==
    {<<>>, <<[address |-> Origin, predefined |-> TRUE]>>,
     <<[address |-> Origin, predefined |-> TRUE],
       [address |-> Origin + 4, predefined |-> TRUE],
       [address |-> Origin, predefined |-> FALSE]>>}

Address(a) == [kind |-> "Address", address |-> a]
PCLocation == [kind |-> "PC"]
Label(name, offset) == [kind |-> "Label", name |-> name, offset |-> offset]
Register(r) == [kind |-> "Register", register |-> r]

\* LOOP is 0x3002; LOOP-5 is below the origin; LOOP+28672 is 0xA002, past
\* the i16 range; NONE is no label
Labels == {Label("LOOP", 0), Label("LOOP", -5), Label("LOOP", 28672),
           Label("NONE", 0)}
FailingLabels == {Label("LOOP", -5), Label("NONE", 0)}
BreakLocations ==
    {Address(Origin + 4), Address(DeviceSpace), PCLocation} \cup FailingLabels
SetLocations == {Register(7), Address(Origin + 1)} \cup FailingLabels
\* HALT
SetValues == {61477}
GetLocations == {Register(0), Address(Origin)} \cup Labels
\* HALT, RTI
EvalInstructions == {61477, 32768}
\* what read_input finds: the byte 'A', or the end of the input
InputBytes == {65, EndOfInput}

\* read_input is called by GETC and IN alone: what it would find matters
\* to no other instruction
reads_input(instruction) ==
    /\ Shr(instruction, 12) = 15
    /\ BitAnd(instruction, 255) \in {TrapGetc, TrapIn}
InputsOf(instruction) ==
    IF reads_input(instruction) THEN InputBytes ELSE {EndOfInput}

RunCommands ==
    {[name |-> "Continue"], [name |-> "Finish"], [name |-> "Next"]}
        \cup {[name |-> "Step", count |-> n] : n \in 1..MaxStep}
QuitCommands == {[name |-> "Quit"], [name |-> "Eof"]}
ExitCommands == {[name |-> "Exit"]}
InspectCommands ==
    {[name |-> "Help"], [name |-> "Registers"], [name |-> "Source"],
     [name |-> "BreakList"]}
        \cup {[name |-> "Get", location |-> l] : l \in GetLocations}
SetCommands ==
    {[name |-> "Set", location |-> l, value |-> v] :
        l \in SetLocations, v \in SetValues}
ResetCommands == {[name |-> "Reset"]}
EvalCommands == {[name |-> "Eval", instruction |-> w] : w \in EvalInstructions}
BreakCommands ==
    {[name |-> n, location |-> l] :
        n \in {"BreakAdd", "BreakRemove"}, l \in BreakLocations}
\* lines next_command skips: blank ones and the ones Command::try_from rejects
SkippedLines == {[name |-> "Blank"], [name |-> "Invalid"]}

(***************************************************************************)
(* State.                                                                  *)
(***************************************************************************)
VARIABLES
    state,              \* RunState
    initial_state,      \* Debugger.initial_state
    status,             \* Debugger.status
    breakpoints,        \* Debugger.breakpoints
    current_breakpoint, \* Debugger.current_breakpoint, NoAddress for None
    instruction_count,  \* Debugger.instruction_count
    was_pc_changed,     \* Debugger.was_pc_changed
    instr,              \* wait_for_action's decoded instruction
    ctl,                \* where the run loop is
    returned,           \* the Action the last boundary call returned
    lines_left,         \* lines the command source still holds
    command,            \* the last line read: its name and resolution
    issued,             \* history: the last run-mode command issued
    clean,              \* history: no pause or device pc met since `issued`
    proceeds,           \* history: Proceeds returned since `issued`
    after_ret,          \* history: instructions run since Finish met a RET
    arrived,            \* history: at a prompt no line has been read at yet
    held,               \* history: breakpoint paused at, the pc still on it
    last_pause,         \* history: where the preceding check paused
    check,              \* history: the last boundary check
    call,               \* a function applied on its own: its name and inputs
    result              \* what the function applied on its own returned

debugger == <<initial_state, status, breakpoints, current_breakpoint,
              instruction_count, was_pc_changed, instr>>
engine == <<ctl, returned, lines_left, command>>
history == <<issued, clean, proceeds, after_ret, arrived, held, last_pause, check>>
machine == <<state, debugger, engine, history>>
alone == <<call, result>>
vars == <<machine, alone>>

NoCheck ==
    [pc |-> NoAddress, device |-> FALSE, instr |-> "None", has_bp |-> FALSE,
     bp_pause |-> FALSE, entry_status |-> WaitForAction,
     dispatch_status |-> WaitForAction, last_pause |-> NoAddress,
     held |-> NoAddress, prompted |-> FALSE]

NoCommand == [name |-> "None", resolved |-> "n/a", address |-> NoAddress]
NoCall == [fn |-> "none"]
NoResult == [kind |-> "none"]
NoneIssued == [name |-> "None", count |-> 0, pc |-> NoAddress, at |-> "None"]

\* Debugger::new, with the run loop about to make its first boundary call
MachineStart ==
    /\ state \in Loaded(Origin, Programs)
    /\ initial_state = state
    /\ status = WaitForAction
    /\ breakpoints \in BreakpointSeeds
    /\ current_breakpoint = NoAddress
    /\ instruction_count = 0
    /\ was_pc_changed = FALSE
    /\ instr = "None"
    /\ ctl = "boundary"
    /\ returned = "None"
    /\ lines_left = MaxLines
    /\ command = NoCommand
    /\ issued = NoneIssued
    /\ clean = FALSE
    /\ proceeds = 0
    /\ after_ret = -1
    /\ arrived = FALSE
    /\ held = NoAddress
    /\ last_pause = NoAddress
    /\ check = NoCheck

Init ==
    /\ MachineStart
    /\ call = NoCall
    /\ result = NoResult

\* the breakpoint paused at, while the pc has not left it
Hold(paused, pc_before, pc_after) ==
    IF paused THEN pc_before
    ELSE IF held = pc_after THEN held ELSE NoAddress

(***************************************************************************)
(* The run loop calls wait_for_action before each instruction.             *)
(***************************************************************************)
\* wait_for_action on a pc in device space: Proceed, nothing touched
DeviceCall ==
    /\ ctl = "boundary"
    /\ in_device_space(state.pc)
    /\ ctl' = "execute"
    /\ returned' = "Proceed"
    /\ clean' = FALSE
    /\ proceeds' = IF proceeds <= MaxInstr THEN proceeds + 1 ELSE proceeds
    /\ arrived' = FALSE
    /\ held' = Hold(FALSE, state.pc, state.pc)
    /\ last_pause' = NoAddress
    /\ check' = [pc |-> state.pc, device |-> TRUE, instr |-> "None",
                 has_bp |-> breakpoints_contains(breakpoints, state.pc),
                 bp_pause |-> FALSE, entry_status |-> status,
                 dispatch_status |-> status, last_pause |-> last_pause,
                 held |-> held, prompted |-> FALSE]
    /\ UNCHANGED <<state, debugger, lines_left, command, issued, after_ret,
                   alone>>

\* wait_for_action outside device space: the breakpoint and HALT test, then
\* wait_for_single_action until it returns Proceed or needs a line
WaitForActionCall ==
    /\ ctl = "boundary"
    /\ ~in_device_space(state.pc)
    /\ \E ins \in {RelevantInstr(mem(state, state.pc))} :
       \E hit \in {breakpoint_hit(breakpoints, current_breakpoint, state.pc)} :
       \E b \in {break_check(breakpoints, current_breakpoint, status,
                             state.pc, ins)} :
       \E d \in {dispatch(b.status, state.pc, ins)} :
           /\ status' = d.status
           /\ current_breakpoint' = b.current_breakpoint
           /\ instr' = IF d.action = "Proceed" THEN "None" ELSE ins
           /\ ctl' = IF d.action = "Proceed" THEN "execute" ELSE "prompt"
           /\ returned' = IF d.action = "Proceed" THEN "Proceed" ELSE "None"
           /\ clean' = (clean /\ ~hit /\ ins # "TrapHalt")
           /\ proceeds' = IF d.action = "Proceed" /\ proceeds <= MaxInstr
                          THEN proceeds + 1 ELSE proceeds
           /\ after_ret' = IF b.status.kind = "Finish" /\ ins = "Ret"
                           THEN 0 ELSE after_ret
           /\ arrived' = (d.action # "Proceed")
           /\ held' = Hold(hit, state.pc, state.pc)
           /\ last_pause' = IF hit THEN state.pc ELSE NoAddress
           /\ check' = [pc |-> state.pc, device |-> FALSE, instr |-> ins,
                        has_bp |-> breakpoints_contains(breakpoints, state.pc),
                        bp_pause |-> hit, entry_status |-> status,
                        dispatch_status |-> b.status, last_pause |-> last_pause,
                        held |-> held, prompted |-> FALSE]
    /\ UNCHANGED <<state, initial_state, breakpoints, instruction_count,
                   was_pc_changed, lines_left, command, issued, alone>>

(***************************************************************************)
(* At the prompt: next_action reads one line and acts on it.               *)
(***************************************************************************)
\* a line next_command skips: blank, or rejected by Command::try_from
SkipLine(line) ==
    /\ ctl = "prompt"
    /\ lines_left > 0
    /\ lines_left' = lines_left - 1
    /\ command' = [name |-> line.name, resolved |-> "n/a",
                    address |-> NoAddress]
    /\ instruction_count' = 0
    /\ was_pc_changed' = FALSE
    /\ arrived' = FALSE
    /\ check' = [check EXCEPT !.prompted = TRUE]
    /\ UNCHANGED <<state, initial_state, status, breakpoints, current_breakpoint,
                   instr, ctl, returned, issued, clean, proceeds, after_ret,
                   held, last_pause, alone>>

\* next_action came back with None: wait_for_single_action runs its loop
\* again, and returns Proceed or needs the next line
Redispatch(cmd, r) ==
    \E d \in {dispatch(r.status, r.st.pc, instr)} :
    \E run \in {cmd.name \in {"Continue", "Finish", "Step", "Next"}} :
        /\ status' = d.status
        /\ returned' = IF d.action = "Proceed" THEN "Proceed" ELSE "None"
        /\ ctl' = IF d.action = "Proceed" THEN "execute" ELSE "prompt"
        /\ instr' = IF d.action = "Proceed" THEN "None" ELSE instr
        /\ issued' = IF run
                     THEN [name |-> cmd.name,
                           count |-> IF cmd.name = "Step" THEN cmd.count ELSE 0,
                           pc |-> state.pc, at |-> instr]
                     ELSE issued
        /\ clean' = IF run THEN TRUE ELSE clean
        /\ proceeds' = IF run THEN (IF d.action = "Proceed" THEN 1 ELSE 0)
                       ELSE proceeds
        /\ after_ret' = IF run
                        THEN (IF r.status.kind = "Finish" /\ instr = "Ret"
                              THEN 0 ELSE -1)
                        ELSE after_ret

\* next_action returned an Action, or the process panicked
Leave(r) ==
    /\ status' = r.status
    /\ returned' = IF r.result = "Panic" THEN "None" ELSE r.result
    /\ ctl' = CASE r.result = "StopDebugger" -> "detached"
                [] r.result = "ExitProgram" -> "done"
                [] r.result = "Panic" -> "panicked"
    /\ instr' = "None"
    /\ UNCHANGED <<issued, clean, proceeds, after_ret>>

\* a command (or end-of-input, read as quit): next_action, then the loop of
\* wait_for_single_action until it returns or needs the next line
CommandLine(cmd) ==
    /\ ctl = "prompt"
    /\ cmd.name = "Eof" \/ lines_left > 0
    /\ lines_left' = IF cmd.name = "Eof" THEN lines_left ELSE lines_left - 1
    /\ \E inb \in InputsOf(IF cmd.name = "Eval" THEN cmd.instruction ELSE 0),
          chk \in BOOLEAN :
       \E r \in {next_action(cmd, status, breakpoints, state, initial_state,
                             chk, inb)} :
            /\ command' = [name |-> cmd.name, resolved |-> r.resolved,
                            address |-> command_address(cmd, state,
                                                        initial_state.pc, chk)]
            /\ state' = r.st
            /\ breakpoints' = r.breakpoints
            /\ instruction_count' = 0
            /\ was_pc_changed' = r.was_pc_changed
            /\ IF r.result = "None" THEN Redispatch(cmd, r) ELSE Leave(r)
            /\ arrived' = FALSE
            /\ held' = Hold(FALSE, state.pc, r.st.pc)
            /\ check' = [check EXCEPT !.prompted = TRUE]
    /\ initial_state' = initial_state_after(cmd, initial_state, state)
    /\ UNCHANGED <<current_breakpoint, last_pause, alone>>

ReadSkipped == \E line \in SkippedLines : SkipLine(line)
ReadQuit == \E cmd \in QuitCommands : CommandLine(cmd)
ReadExit == \E cmd \in ExitCommands : CommandLine(cmd)
ReadRun == \E cmd \in RunCommands : CommandLine(cmd)
ReadInspect == \E cmd \in InspectCommands : CommandLine(cmd)
ReadSet == \E cmd \in SetCommands : CommandLine(cmd)
ReadReset == \E cmd \in ResetCommands : CommandLine(cmd)
ReadEval == \E cmd \in EvalCommands : CommandLine(cmd)
ReadBreak == \E cmd \in BreakCommands : CommandLine(cmd)

(***************************************************************************)
(* RunState::run: the loop ends in device space, else one instruction.     *)
(* Once StopDebugger has dropped the debugger ("detached") the program     *)
(* runs on without boundary calls, and the model follows it no further.    *)
(***************************************************************************)
RunBreak ==
    /\ ctl = "execute"
    /\ state.pc >= DeviceSpace
    /\ ctl' = "done"
    /\ UNCHANGED <<state, debugger, returned, lines_left, command, history,
                   alone>>

RunInstruction ==
    /\ ctl = "execute"
    /\ state.pc < DeviceSpace
    /\ instruction_count < MaxInstr
    /\ \E inb \in InputsOf(mem(state, state.pc)), chk \in BOOLEAN :
       \E r \in {run_step(state, chk, inb)} :
            /\ state' = r.st
            /\ ctl' = IF r.ok THEN "boundary" ELSE "panicked"
            /\ instruction_count' =
                  IF r.ok THEN instruction_count + 1 ELSE instruction_count
            /\ after_ret' = IF after_ret >= 0 /\ r.ok
                            THEN after_ret + 1 ELSE after_ret
            /\ held' = Hold(FALSE, state.pc, r.st.pc)
    /\ UNCHANGED <<initial_state, status, breakpoints, current_breakpoint,
                   was_pc_changed, instr, returned, lines_left, command,
                   issued, clean, proceeds, arrived, last_pause, check,
                   alone>>

Next ==
    \/ DeviceCall
    \/ WaitForActionCall
    \/ ReadSkipped
    \/ ReadQuit
    \/ ReadExit
    \/ ReadRun
    \/ ReadInspect
    \/ ReadSet
    \/ ReadReset
    \/ ReadEval
    \/ ReadBreak
    \/ RunBreak
    \/ RunInstruction

Spec == Init /\ [][Next]_vars

TypeOK ==
    /\ state.pc \in 0..(Word - 1)
    /\ \A r \in 0..7 : state.reg[r] \in 0..(Word - 1)
    /\ status.kind \in {"WaitForAction", "Step", "Next", "Continue", "Finish"}
    /\ ctl \in {"boundary", "prompt", "execute", "done", "detached", "panicked"}
    /\ returned \in {"None", "Proceed", "StopDebugger", "ExitProgram"}
    /\ ctl = "prompt" => status.kind = "WaitForAction"

(***************************************************************************)
(* Properties of the stepping commands.                                    *)
(***************************************************************************)
RunKinds == {"Step", "Next", "Continue", "Finish"}

\* the operator is back at a prompt reached by a boundary call, and nothing
\* (breakpoint, HALT, device-space pc) disturbed the command last issued
UndisturbedPrompt(name) ==
    ctl = "prompt" /\ arrived /\ issued.name = name /\ clean

\* C1: an undisturbed `finish`, issued at an instruction that is not itself
\* a RET, comes back to the prompt only after a boundary met a RET, and
\* exactly one instruction (that RET) has executed from that boundary on
\* when the operator is prompted again
C1_FinishRunsTheRetOnly ==
    (UndisturbedPrompt("Finish") /\ issued.at # "Ret") => after_ret = 1

\* what the code does instead: the RET and the instruction it returns to
FinishRunsOnePastTheRet ==
    UndisturbedPrompt("Finish") => after_ret = 2

\* C2: after an undisturbed `step n` (n >= 1) the status is Step{n-1} less
\* one per further boundary call, WaitForAction once n calls have returned
\* Proceed, and the operator is prompted again after exactly n Proceeds and
\* n executed instructions
C2_StepRunsExactlyN ==
    (issued.name = "Step" /\ clean) =>
        /\ issued.count >= 1
        /\ proceeds <= issued.count
        /\ ctl \in {"execute", "boundary", "done"} =>
              /\ proceeds >= 1
              /\ status = IF proceeds < issued.count
                          THEN Step(issued.count - 1 - proceeds)
                          ELSE WaitForAction
        /\ ctl = "execute" => instruction_count = proceeds - 1
        /\ ctl = "boundary" => instruction_count = proceeds
        /\ (ctl = "prompt" /\ arrived) =>
              /\ proceeds = issued.count
              /\ instruction_count = issued.count

\* C2 happens: the prompt after an undisturbed `step MaxStep`
C2_Witness ==
    /\ UndisturbedPrompt("Step")
    /\ issued.count = MaxStep
    /\ instruction_count = MaxStep
    /\ proceeds = MaxStep
    /\ check.entry_status = WaitForAction

\* C3 as stated: with a breakpoint at the pc (outside device space) the
\* check pauses exactly when the pc has been away from the address since
\* the last pause there, so no re-check with the pc still on it pauses
C3_NoPauseUntilPcMovedAway ==
    (check.pc # NoAddress /\ ~check.device /\ check.has_bp) =>
        /\ check.bp_pause <=> check.held # check.pc
        /\ check.bp_pause => check.dispatch_status = WaitForAction

\* C3 amended: with a breakpoint at the pc (outside device space) the check
\* pauses, with status WaitForAction, unless the check just before it paused
\* on the breakpoint at that address; only that one re-check is let through
C3_PauseUnlessJustPaused ==
    (check.pc # NoAddress /\ ~check.device /\ check.has_bp) =>
        /\ check.bp_pause <=> check.last_pause # check.pc
        /\ check.bp_pause => check.dispatch_status = WaitForAction

\* C3 happens: a second re-check pauses though the pc never left the address
C3_Witness ==
    /\ check.has_bp /\ check.bp_pause
    /\ check.held = check.pc
    /\ check.last_pause = NoAddress
    /\ ctl = "prompt"

\* C4: `next` at pc P never fails and sets the return address to P+1, and
\* when nothing disturbs it the operator is prompted again by the boundary
\* call that finds the pc at P+1, the status Next until then
C4_NextReturnsAtPcPlusOne ==
    /\ ctl = "panicked" => command.name # "Next"
    /\ status.kind = "Next" =>
          /\ issued.name = "Next"
          /\ status.return_addr = issued.pc + 1
    /\ UndisturbedPrompt("Next") =>
          /\ state.pc = issued.pc + 1
          /\ check.pc = state.pc
          /\ check.dispatch_status.kind = "Next"
          /\ ~check.prompted

(***************************************************************************)
(* Properties of the boundary check.                                       *)
(***************************************************************************)
\* C5: a boundary check outside device space on a HALT trap starts dispatch
\* in WaitForAction whatever the status and the breakpoints were, and no
\* HALT is about to execute unless the operator was prompted since the check
C5_HaltPrompts ==
    /\ (check.pc # NoAddress /\ ~check.device /\ check.instr = "TrapHalt") =>
          /\ check.dispatch_status = WaitForAction
          /\ ctl = "prompt" \/ check.prompted
    /\ (ctl = "execute" /\ state.pc < DeviceSpace
            /\ RelevantInstr(mem(state, state.pc)) = "TrapHalt") =>
          check.prompted

\* C5 happens: Continue ran onto a HALT, and the operator is at the prompt
C5_Witness ==
    /\ check.instr = "TrapHalt"
    /\ check.entry_status = Continue
    /\ ~check.bp_pause
    /\ ctl = "prompt" /\ arrived
    /\ status = WaitForAction

\* a breakpoint at the pc of the check that the check just before did not
\* pause on
NonDebounced == check.has_bp /\ check.last_pause # check.pc

\* a boundary call entered in Continue and left alone returns Proceed,
\* reads no line and leaves the status Continue, so that an undisturbed
\* `continue` never comes back to the prompt
ContinueLeftAlone(alone_here) ==
    /\ (check.entry_status = Continue /\ alone_here) =>
          /\ ~check.prompted
          /\ returned = "Proceed"
          /\ status = Continue
    /\ (issued.name = "Continue" /\ clean) =>
          /\ status = Continue
          /\ returned = "Proceed"
          /\ ctl # "prompt"

\* the check starts dispatch in WaitForAction, whatever the run mode was,
\* and the operator is prompted
Cancelled ==
    /\ check.dispatch_status = WaitForAction
    /\ ctl = "prompt" \/ check.prompted

\* C6 as stated: a call entered in Continue is left alone at every pc
\* without a non-debounced breakpoint or a HALT, and a non-debounced
\* breakpoint or a HALT at the pc cancels every run mode
C6_BreakpointOrHaltCancels ==
    check.pc # NoAddress =>
        /\ ContinueLeftAlone(~NonDebounced /\ check.instr # "TrapHalt")
        /\ (NonDebounced \/ check.instr = "TrapHalt") => Cancelled

\* C6 amended: the same for a pc outside device space; with the pc in
\* device space the call is left alone whatever is at the pc
C6_ContinueProceeds ==
    check.pc # NoAddress =>
        /\ ContinueLeftAlone(\/ check.device
                             \/ ~NonDebounced /\ check.instr # "TrapHalt")
        /\ (~check.device /\ (NonDebounced \/ check.instr = "TrapHalt"))
              => Cancelled

\* in device space a breakpoint at the pc does not cancel Continue
ContinuesOverADeviceBreakpoint ==
    /\ check.device /\ check.has_bp
    /\ check.entry_status = Continue
    /\ status = Continue
    /\ ctl = "execute" /\ returned = "Proceed"

\* C6 happens: in Continue a debounced breakpoint at the pc is run through
C6_Witness ==
    /\ check.entry_status = Continue
    /\ check.has_bp /\ ~check.bp_pause
    /\ check.last_pause = check.pc
    /\ ctl = "execute" /\ returned = "Proceed"
    /\ status = Continue

\* C7: a boundary call with the pc in device space returns Proceed and
\* changes neither status, breakpoints, marker, machine state nor the input
\* read so far; with the pc at 0xFFFF and the status WaitForAction the call
\* goes to the prompt instead
C7_DeviceSpaceProceeds ==
    [][/\ (ctl = "boundary" /\ state.pc >= DeviceSpace
               /\ state.pc < HaltAddress) =>
             /\ ctl' = "execute" /\ returned' = "Proceed"
             /\ UNCHANGED <<state, initial_state, status, breakpoints,
                            current_breakpoint, lines_left, command>>
       /\ (ctl = "boundary" /\ state.pc = HaltAddress
               /\ status = WaitForAction) =>
             ctl' = "prompt" /\ returned' = "None"]_vars

\* C7 happens: Proceed in device space with the status WaitForAction and a
\* breakpoint set at the pc
C7_Witness ==
    /\ check.device
    /\ check.has_bp
    /\ check.entry_status = WaitForAction
    /\ status = WaitForAction
    /\ ctl = "execute" /\ returned = "Proceed"

(***************************************************************************)
(* Properties of the command loop.                                         *)
(***************************************************************************)
\* C8: StopDebugger is returned only for quit or end-of-input and
\* ExitProgram only for exit, both only from the prompt with the status
\* WaitForAction; a boundary call whose dispatch starts in a run mode
\* returns Proceed unless it went to the prompt first
C8_ActionsReturned ==
    [][/\ (returned' = "StopDebugger" /\ returned # "StopDebugger") =>
             /\ ctl = "prompt" /\ status = WaitForAction
             /\ command'.name \in {"Quit", "Eof"}
       /\ (returned' = "ExitProgram" /\ returned # "ExitProgram") =>
             /\ ctl = "prompt" /\ status = WaitForAction
             /\ command'.name = "Exit"
       /\ (ctl = "prompt" /\ command'.name \in {"Quit", "Eof"}
               /\ (command' # command \/ lines_left' # lines_left)) =>
             returned' = "StopDebugger"
       /\ (ctl = "boundary" /\ check'.dispatch_status.kind \in RunKinds
               /\ ctl' # "prompt") =>
             returned' = "Proceed"]_vars

\* C8 happens: end-of-input stopped the debugger
C8_Witness ==
    /\ returned = "StopDebugger"
    /\ command.name = "Eof"
    /\ ctl = "detached"

\* C9: a line that does not parse, or a get, set, break-add or break-remove
\* whose location does not resolve, leaves the status WaitForAction, leaves
\* breakpoints, marker, registers, memory and pc as they were, returns no
\* Action, and the operator is prompted again
C9_FailedLineChangesNothing ==
    [][(ctl = "prompt" /\ lines_left' < lines_left
            /\ (command'.name = "Invalid" \/ command'.resolved = "None")) =>
          /\ UNCHANGED <<state, initial_state, status, breakpoints,
                         current_breakpoint>>
          /\ status' = WaitForAction
          /\ ctl' = "prompt" /\ returned' = "None"]_vars

\* C9 happens: a `set` on a label that does not resolve, back at the prompt
C9_Witness ==
    /\ command.name = "Set"
    /\ command.resolved = "None"
    /\ ctl = "prompt"
    /\ lines_left < MaxLines

\* the commands that are no run-mode command and do not end the session
OtherCommands ==
    {"Help", "Get", "Set", "Registers", "Reset", "Source", "Eval",
     "BreakAdd", "BreakRemove", "BreakList"}

\* C10: at the prompt the status changes only on continue, finish, step and
\* next; every other command leaves it WaitForAction and is followed by
\* the prompt in the same boundary call
C10_OnlyRunCommandsChangeStatus ==
    [][(ctl = "prompt" /\ lines_left' < lines_left) =>
          /\ status' # status =>
                command'.name \in {"Continue", "Finish", "Step", "Next"}
          /\ command'.name \in OtherCommands =>
                /\ status' = WaitForAction
                /\ ctl' = "prompt" /\ returned' = "None"]_vars

\* what does hold: the same for the commands that do not abort the process
OnlyRunCommandsChangeStatusUnlessAborted ==
    [][(ctl = "prompt" /\ lines_left' < lines_left) =>
          /\ status' # status =>
                command'.name \in {"Continue", "Finish", "Step", "Next"}
          /\ command'.name \in OtherCommands =>
                /\ status' = WaitForAction
                /\ ctl' \in {"prompt", "panicked"}
                /\ ctl' = "prompt" => returned' = "None"
                /\ ctl' = "panicked" => command'.name \in {"Get", "Set",
                                            "Eval", "BreakAdd", "BreakRemove"}
                ]_vars

\* a command of the list aborted the process: no prompt follows
AbortedByAnOtherCommand ==
    /\ ctl = "panicked"
    /\ command.name \in OtherCommands
    /\ status = WaitForAction

\* C10 happens: reset moved the pc back and the operator is at the prompt
C10_Witness ==
    /\ command.name = "Reset"
    /\ ctl = "prompt"
    /\ status = WaitForAction
    /\ was_pc_changed
    /\ state = initial_state
    /\ check.pc # state.pc

(***************************************************************************)
(* Properties of reset and of the breakpoint commands.                     *)
(***************************************************************************)
\* the operator's line is read at the prompt in this step
LineRead == ctl = "prompt" /\ lines_left' < lines_left

\* C11: reset makes registers, memory and pc equal to the snapshot and
\* leaves status, breakpoints and the last-paused marker as they were
C11_ResetRestoresTheSnapshot ==
    [][(LineRead /\ command'.name = "Reset") =>
          /\ state' = initial_state
          /\ UNCHANGED <<status, breakpoints, current_breakpoint>>]_vars

\* C11 happens: reset after a pause on a breakpoint away from the origin
C11_Witness ==
    /\ command.name = "Reset"
    /\ state = initial_state
    /\ current_breakpoint # NoAddress
    /\ current_breakpoint # state.pc
    /\ breakpoints # <<>>
    /\ status = WaitForAction

\* C12: no step changes the snapshot, which stays the state given at
\* construction; so a reset right after a reset changes nothing
C12_SnapshotNeverChanges ==
    [][/\ initial_state' = initial_state
       /\ initial_state.pc = Origin
       /\ initial_state \in Loaded(Origin, Programs)
       /\ (LineRead /\ command.name = "Reset" /\ command'.name = "Reset") =>
             state' = state /\ state' = initial_state']_vars

\* C12 happens: a reset on the second line read gave the snapshot back
\* after the program had run away from the origin
C12_Witness ==
    /\ command.name = "Reset"
    /\ lines_left = MaxLines - 2
    /\ state = initial_state
    /\ check.pc # NoAddress /\ check.pc # Origin

NoDuplicates(bps) ==
    \A i, j \in 1..Len(bps) : bps[i].address = bps[j].address => i = j

\* C13: a breakpoint list without two breakpoints at one address stays so
\* in every step; break-add at an address present leaves the list as it
\* is, and at an address absent appends one breakpoint, not predefined
C13_BreakAddKeepsAddressesDistinct ==
    [][/\ NoDuplicates(breakpoints) => NoDuplicates(breakpoints')
       /\ (LineRead /\ command'.name = "BreakAdd"
               /\ command'.resolved = "Some") =>
             breakpoints' =
                IF \E i \in 1..Len(breakpoints) :
                       breakpoints[i].address = command'.address
                THEN breakpoints
                ELSE breakpoints \o <<[address |-> command'.address,
                                       predefined |-> FALSE]>>]_vars

\* C13 happens: break-add at the address of the one predefined breakpoint
C13_Witness ==
    /\ command.name = "BreakAdd"
    /\ command.resolved = "Some"
    /\ breakpoints = <<[address |-> command.address, predefined |-> TRUE]>>

\* the breakpoints of a list that are not at the address, in their order
RECURSIVE Others(_, _)
Others(bps, address) ==
    IF bps = <<>> THEN <<>>
    ELSE IF Head(bps).address = address THEN Others(Tail(bps), address)
    ELSE <<Head(bps)>> \o Others(Tail(bps), address)

CountAt(bps, address) ==
    Cardinality({i \in 1..Len(bps) : bps[i].address = address})

\* C14: break-remove at A leaves the breakpoints not at A in their order
\* and none at A, its report is true exactly when one was at A; after a
\* break-add at A the list holds one breakpoint at A when none was there
\* before, and a break-remove at A then gives back the list before the add
C14_BreakRemoveUndoesBreakAdd ==
    [][/\ (LineRead /\ command'.name = "BreakRemove"
               /\ command'.resolved = "Some") =>
             /\ breakpoints' = Others(breakpoints, command'.address)
             /\ CountAt(breakpoints', command'.address) = 0
             /\ breakpoints_removed(breakpoints, command'.address)
                   <=> CountAt(breakpoints, command'.address) > 0
       /\ (LineRead /\ command'.name = "BreakAdd"
               /\ command'.resolved = "Some"
               /\ CountAt(breakpoints, command'.address) = 0) =>
             /\ CountAt(breakpoints', command'.address) = 1
             /\ Others(breakpoints', command'.address) = breakpoints
       /\ (LineRead /\ command.name = "BreakAdd" /\ command.resolved = "Some"
               /\ command'.name = "BreakRemove"
               /\ command'.address = command.address
               /\ CountAt(breakpoints, command.address) = 1
               /\ breakpoints[Len(breakpoints)].address = command.address) =>
             breakpoints' = SubSeq(breakpoints, 1, Len(breakpoints) - 1)]_vars

\* C14 happens: break-remove took both breakpoints at the origin out of the
\* list given with the address twice, and left the one between them
C14_Witness ==
    /\ command.name = "BreakRemove"
    /\ command.resolved = "Some"
    /\ command.address = Origin
    /\ breakpoints = <<[address |-> Origin + 4, predefined |-> TRUE]>>

(***************************************************************************)
(* Functions applied on their own: the machine stands still at its start,  *)
(* `call` holds the inputs and `result` what the function returned.        *)
(***************************************************************************)
MachineIdle ==
    /\ MachineStart
    /\ state \in Loaded(Origin, {CallProgram})
    /\ Len(breakpoints) = 3

(***************************************************************************)
(* resolve_label_address over origins, symbol values and offsets.          *)
(***************************************************************************)
\* 0x0200, 0x3000, 0x8000, 0xFD00
ResolveOrigins == {512, 12288, 32768, 64768}
ResolveValues == {1, 2, 3, 256, 4096}
\* offsets are i16
ResolveOffsets ==
    {-32768, -4096, -2, -1, 0, 1, 255, 768, 4096, 20480, 28672, 32767}

ResolveInit ==
    /\ MachineIdle
    /\ call \in {[fn |-> "resolve_label_address", origin |-> o, value |-> v,
                  offset |-> k] :
                    o \in ResolveOrigins, v \in ResolveValues,
                    k \in ResolveOffsets}
    /\ result = NoResult

ResolveLabel ==
    /\ result = NoResult
    /\ \E chk \in BOOLEAN :
          result' = resolve_label_address_in([LOOP |-> call.value],
                                             Label("LOOP", call.offset),
                                             call.origin, chk)
    /\ UNCHANGED <<machine, call>>

ResolveNext == ResolveLabel

ResolveSpec == ResolveInit /\ [][ResolveNext]_vars

\* C15: for origin, symbol value v and offset k the resolver never aborts
\* and yields origin + (v - 1) + k when origin <= that address < 0xFE00,
\* and no address otherwise
C15_ResolverIsExact ==
    result # NoResult =>
        LET address == call.origin + (call.value - 1) + call.offset
        IN  /\ result.kind # "Panic"
            /\ result = IF call.origin <= address /\ address < DeviceSpace
                        THEN Resolved(address)
                        ELSE Unresolved

(***************************************************************************)
(* parse_integer (debugger/parse.rs).  A token is a sequence of            *)
(* characters; the character iterator is the sequence still unread.        *)
(***************************************************************************)
I32Max == 2147483647
I32Min == -I32Max - 1

\* i32 addition as a build without overflow checks does it
WrapAdd32(a, b) ==
    IF a >= 0 /\ b >= 0 /\ a > I32Max - b
    THEN ((a - I32Max) + (b - I32Max)) - 2
    ELSE IF a < 0 /\ b < 0 /\ a < I32Min - b
    THEN ((a + I32Max) + (b + I32Max)) + 2
    ELSE a + b

AddOverflows32(a, b) ==
    \/ a >= 0 /\ b >= 0 /\ a > I32Max - b
    \/ a < 0 /\ b < 0 /\ a < I32Min - b

\* i32 multiplication by a small n >= 0, by repeated addition
RECURSIVE WrapMul32(_, _)
WrapMul32(a, n) ==
    IF n = 0 THEN 0 ELSE WrapAdd32(WrapMul32(a, n - 1), a)

RECURSIVE MulOverflows32(_, _)
MulOverflows32(a, n) ==
    IF n <= 1 THEN FALSE
    ELSE \/ MulOverflows32(a, n - 1)
         \/ AddOverflows32(a * (n - 1), a)

DecimalDigits == <<"0", "1", "2", "3", "4", "5", "6", "7", "8", "9">>
LowerHexDigits == <<"a", "b", "c", "d", "e", "f">>
UpperHexDigits == <<"A", "B", "C", "D", "E", "F">>

\* the position of a character in a list of characters, 0 if it is not there
IndexIn(chars, ch) ==
    IF \E i \in 1..Len(chars) : chars[i] = ch
    THEN CHOOSE i \in 1..Len(chars) : chars[i] = ch
    ELSE 0

NoDigit == -1

\* Radix::parse_digit, NoDigit for None
parse_digit(radix, ch) ==
    LET dec == IndexIn(DecimalDigits, ch) - 1
        low == IndexIn(LowerHexDigits, ch) - 1
        upp == IndexIn(UpperHexDigits, ch) - 1
    IN  CASE radix = 2 -> IF dec \in 0..1 THEN dec ELSE NoDigit
          [] radix = 8 -> IF dec \in 0..7 THEN dec ELSE NoDigit
          [] radix = 10 -> IF dec >= 0 THEN dec ELSE NoDigit
          [] radix = 16 -> IF dec >= 0 THEN dec
                           ELSE IF low >= 0 THEN low + 10
                           ELSE IF upp >= 0 THEN upp + 10
                           ELSE NoDigit

Positive == 1
Negative == -1
NoSign == 0

\* take_sign: the sign taken, and the characters left
take_sign(chars) ==
    IF chars # <<>> /\ Head(chars) = "+"
    THEN [sign |-> Positive, rest |-> Tail(chars)]
    ELSE IF chars # <<>> /\ Head(chars) = "-"
    THEN [sign |-> Negative, rest |-> Tail(chars)]
    ELSE [sign |-> NoSign, rest |-> chars]

PrefixResult(kind, radix, leading_zeros, non_alpha, rest) ==
    [kind |-> kind, radix |-> radix, leading_zeros |-> leading_zeros,
     non_alpha |-> non_alpha, rest |-> rest]

\* faulty variant: a zero before '#' is let through
take_prefix_zero_before_hash(chars) ==
    LET leading_zeros == chars # <<>> /\ Head(chars) = "0"
        after == IF leading_zeros THEN Tail(chars) ELSE chars
        peek == IF after = <<>> THEN "" ELSE Head(after)
    IN  CASE peek \in {"b", "B"} ->
                PrefixResult("Integer", 2, leading_zeros, FALSE, Tail(after))
          [] peek \in {"x", "X"} ->
                PrefixResult("Integer", 16, leading_zeros, FALSE, Tail(after))
          [] peek \in {"o", "O"} ->
                PrefixResult("Integer", 8, leading_zeros, FALSE, Tail(after))
          [] peek = "#" ->
                PrefixResult("Integer", 10, leading_zeros, TRUE, Tail(after))
          [] peek # "" /\ IndexIn(DecimalDigits, peek) > 0 ->
                PrefixResult("Integer", 10, leading_zeros, FALSE, after)
          [] peek \in {"-", "+"} ->
                PrefixResult("Err", 10, leading_zeros, FALSE, after)
          [] peek = "" /\ leading_zeros ->
                PrefixResult("SingleZero", 10, leading_zeros, FALSE, after)
          [] OTHER ->
                PrefixResult("NonInteger", 10, leading_zeros, FALSE, after)

\* take_prefix: Integer(prefix), SingleZero, NonInteger, or Err
take_prefix(chars) ==
    LET leading_zeros == chars # <<>> /\ Head(chars) = "0"
        after == IF leading_zeros THEN Tail(chars) ELSE chars
        peek == IF after = <<>> THEN "" ELSE Head(after)
    IN  CASE peek \in {"b", "B"} ->
                PrefixResult("Integer", 2, leading_zeros, FALSE, Tail(after))
          [] peek \in {"x", "X"} ->
                PrefixResult("Integer", 16, leading_zeros, FALSE, Tail(after))
          [] peek \in {"o", "O"} ->
                PrefixResult("Integer", 8, leading_zeros, FALSE, Tail(after))
          [] peek = "#" ->
                IF leading_zeros
                THEN PrefixResult("Err", 10, leading_zeros, TRUE, after)
                ELSE PrefixResult("Integer", 10, leading_zeros, TRUE,
                                  Tail(after))
          [] peek # "" /\ IndexIn(DecimalDigits, peek) > 0 ->
                PrefixResult("Integer", 10, leading_zeros, FALSE, after)
          [] peek \in {"-", "+"} ->
                PrefixResult("Err", 10, leading_zeros, FALSE, after)
          [] peek = "" /\ leading_zeros ->
                PrefixResult("SingleZero", 10, leading_zeros, FALSE, after)
          [] OTHER ->
                PrefixResult("NonInteger", 10, leading_zeros, FALSE, after)

\* what parse_integer returns: Ok(Some(value)), Ok(None), one of the two
\* errors, or a panic
OkSome(value) == [kind |-> "Ok", value |-> value]
NotInteger == [kind |-> "NotInteger", value |-> 0]
MalformedInteger == [kind |-> "MalformedInteger", value |-> 0]
IntegerTooLarge == [kind |-> "IntegerTooLarge", value |-> 0]
ParsePanic == [kind |-> "Panic", value |-> 0]

\* parse_integer, the loop over the digits: `integer` so far, the
\* characters left; chk tells a build with overflow checks
RECURSIVE take_digits(_, _, _, _)
take_digits(chars, radix, integer, chk) ==
    IF chars = <<>> THEN OkSome(integer)
    ELSE LET digit == parse_digit(radix, Head(chars))
         IN  IF digit = NoDigit THEN MalformedInteger
             ELSE IF integer > I32Max \div radix THEN IntegerTooLarge
             ELSE IF MulOverflows32(integer, radix)
                         \/ AddOverflows32(WrapMul32(integer, radix), digit)
                  THEN IF chk THEN ParsePanic
                       ELSE take_digits(Tail(chars), radix,
                                        WrapAdd32(WrapMul32(integer, radix),
                                                  digit), chk)
                  ELSE take_digits(Tail(chars), radix,
                                   integer * radix + digit, chk)

\* faulty variant: the sign is not applied
apply_sign_dropped(integer, sign, chk) == OkSome(integer)

\* parse_integer, the multiplication by the sign
apply_sign(integer, sign, chk) ==
    IF sign = NoSign THEN OkSome(integer)
    ELSE IF sign = Negative /\ integer = I32Min
    THEN IF chk THEN ParsePanic ELSE OkSome(I32Min)
    ELSE OkSome(integer * sign)

\* faulty variant: a sign after the prefix is taken but not kept
reconcile_sign_first_only(first_sign, second_sign, require_sign) ==
    IF first_sign # NoSign /\ second_sign # NoSign
    THEN [ok |-> FALSE, sign |-> NoSign]
    ELSE IF first_sign = NoSign /\ second_sign = NoSign /\ require_sign
    THEN [ok |-> FALSE, sign |-> NoSign]
    ELSE [ok |-> TRUE, sign |-> first_sign]

\* parse_integer, the match on (first_sign, second_sign): the sign kept,
\* or the early return of Err
reconcile_sign(first_sign, second_sign, require_sign) ==
    IF first_sign # NoSign /\ second_sign # NoSign
    THEN [ok |-> FALSE, sign |-> NoSign]
    ELSE IF first_sign = NoSign /\ second_sign = NoSign
    THEN [ok |-> ~require_sign, sign |-> NoSign]
    ELSE IF first_sign # NoSign
    THEN [ok |-> TRUE, sign |-> first_sign]
    ELSE [ok |-> TRUE, sign |-> second_sign]

parse_integer(string, require_sign, chk) ==
    IF string = <<>> THEN ParsePanic
    ELSE
    LET first == take_sign(string)
        prefix == take_prefix(first.rest)
        second == take_sign(prefix.rest)
        kept == reconcile_sign(first.sign, second.sign, require_sign)
        chars == second.rest
        digits == take_digits(chars, prefix.radix, 0, chk)
    IN  CASE prefix.kind = "Err" -> MalformedInteger
          [] prefix.kind = "SingleZero" -> OkSome(0)
          [] prefix.kind = "NonInteger" ->
                IF first.sign # NoSign THEN MalformedInteger ELSE NotInteger
          [] OTHER ->
                IF ~kept.ok THEN MalformedInteger
                ELSE IF chars = <<>>
                            \/ parse_digit(prefix.radix, Head(chars)) = NoDigit
                THEN IF kept.sign # NoSign \/ prefix.leading_zeros
                            \/ prefix.non_alpha
                     THEN MalformedInteger
                     ELSE NotInteger
                ELSE IF digits.kind = "Ok"
                THEN apply_sign(digits.value, kept.sign, chk)
                ELSE digits

(***************************************************************************)
(* parse_integer applied to tokens: every string over a small alphabet up  *)
(* to a length, and tokens put together from a sign before the prefix,     *)
(* zeros before the prefix, the prefix, a sign after it, zeros and digits. *)
(***************************************************************************)
TokenAlphabet == {"-", "+", "0", "8", "b", "X", "#", "g"}
MaxTokenLen == 3
RawTokens == UNION {[1..n -> TokenAlphabet] : n \in 1..MaxTokenLen}

SignChars == {"-", "+"}
Prefixes == {"", "#", "b", "B", "o", "O", "x", "X"}
MaxZeros == 1
MaxZerosBefore == 2

\* the radix a prefix character stands for (take_prefix)
prefix_radix(prefix) ==
    CASE prefix \in {"b", "B"} -> 2
      [] prefix \in {"o", "O"} -> 8
      [] prefix \in {"x", "X"} -> 16
      [] OTHER -> 10

RECURSIVE Rep(_, _)
Rep(ch, n) == IF n <= 0 THEN <<>> ELSE <<ch>> \o Rep(ch, n - 1)

\* 214748364, the digits of i32::MAX without the last
MaxDecimalStem == <<"2", "1", "4", "7", "4", "8", "3", "6", "4">>

\* digit strings of a radix: small values, i32::MAX, and values past it
FormDigits(radix) ==
    CASE radix = 2 ->
            {<<"0">>, <<"1">>, <<"1", "0", "1">>, Rep("1", 31),
             <<"1">> \o Rep("0", 31)}
      [] radix = 8 ->
            {<<"0">>, <<"7">>, <<"1", "7">>, <<"1">> \o Rep("7", 10),
             <<"2">> \o Rep("0", 10)}
      [] radix = 16 ->
            {<<"0">>, <<"4">>, <<"A", "9">>, <<"f", "F">>,
             <<"7">> \o Rep("f", 7), <<"8">> \o Rep("0", 7)}
      [] radix = 10 ->
            {<<"0">>, <<"4">>, <<"2", "9">>,
             MaxDecimalStem \o <<"7">>, MaxDecimalStem \o <<"8">>,
             MaxDecimalStem \o <<"9">>, MaxDecimalStem \o <<"7", "0">>,
             MaxDecimalStem \o <<"8", "0">>,
             <<"4", "2", "9", "4", "9", "6", "7", "2", "9", "6">>}

Chars(ch) == IF ch = "" THEN <<>> ELSE <<ch>>

\* the token of a form
FormToken(f) ==
    Chars(f.sign_before) \o Rep("0", f.zeros_before)
        \o Chars(f.prefix) \o Chars(f.sign_after) \o Rep("0", f.zeros)
        \o f.digits

NoForm ==
    [kind |-> "raw", sign_before |-> "", zeros_before |-> 0, prefix |-> "",
     sign_after |-> "", zeros |-> 0, digits |-> <<>>]

\* the forms: digits of the prefix's radix, no sign after a prefix that is
\* not there
Forms ==
    {f \in [kind : {"form"}, sign_before : SignChars \cup {""},
            zeros_before : 0..MaxZerosBefore, prefix : Prefixes,
            sign_after : SignChars \cup {""}, zeros : 0..MaxZeros,
            digits : UNION {FormDigits(r) : r \in {2, 8, 10, 16}}] :
        /\ f.digits \in FormDigits(prefix_radix(f.prefix))
        /\ f.prefix = "" => f.sign_after = ""}

ParseCalls ==
    {[fn |-> "parse_integer", token |-> t, require_sign |-> rs,
      checks |-> chk, form |-> NoForm] :
        t \in RawTokens, rs \in BOOLEAN, chk \in BOOLEAN}
    \cup
    {[fn |-> "parse_integer", token |-> FormToken(f), require_sign |-> rs,
      checks |-> chk, form |-> f] :
        f \in Forms, rs \in BOOLEAN, chk \in BOOLEAN}

ParseInit ==
    /\ MachineIdle
    /\ call \in ParseCalls
    /\ result = NoResult

ParseInteger ==
    /\ result = NoResult
    /\ result' = parse_integer(call.token, call.require_sign, call.checks)
    /\ UNCHANGED <<machine, call>>

ParseNext == ParseInteger

ParseSpec == ParseInit /\ [][ParseNext]_vars

(***************************************************************************)
(* Properties of parse_integer.                                            *)
(***************************************************************************)
\* the value of a string of digits of the radix, -1 when it is more than
\* i32::MAX
RECURSIVE Magnitude(_, _, _)
Magnitude(digits, radix, acc) ==
    IF digits = <<>> THEN acc
    ELSE LET d == parse_digit(radix, Head(digits))
         IN  IF acc > (I32Max - d) \div radix THEN -1
             ELSE Magnitude(Tail(digits), radix, acc * radix + d)

FormMagnitude(f) ==
    Magnitude(Rep("0", f.zeros) \o f.digits, prefix_radix(f.prefix), 0)

FormSigns(f) == {f.sign_before, f.sign_after} \ {""}

\* a form the grammar takes as an integer: at most one zero before the
\* prefix and none before '#', and one sign, or none where none is required
WellFormed(c) ==
    /\ c.form.kind = "form"
    /\ c.form.zeros_before <= 1
    /\ c.form.prefix = "#" => c.form.zeros_before = 0
    /\ c.form.sign_before = "" \/ c.form.sign_after = ""
    /\ c.require_sign => FormSigns(c.form) # {}

\* C16: a well-formed integer token parses to its exact value when the
\* magnitude is at most i32::MAX and to IntegerTooLarge when it is more,
\* in either build: neither the accumulation nor the multiplication by the
\* sign overflows
C16_ExactValueOrTooLarge ==
    (result # NoResult /\ WellFormed(call)) =>
        result = IF FormMagnitude(call.form) < 0 THEN IntegerTooLarge
                 ELSE IF "-" \in FormSigns(call.form)
                 THEN OkSome(-FormMagnitude(call.form))
                 ELSE OkSome(FormMagnitude(call.form))

\* a token without the sign character it starts with, if it has one
Unsigned(token) ==
    IF token # <<>> /\ Head(token) \in SignChars THEN Tail(token) ELSE token

\* the number of zeros a string of characters starts with
RECURSIVE ZerosAhead(_)
ZerosAhead(chars) ==
    IF chars # <<>> /\ Head(chars) = "0" THEN 1 + ZerosAhead(Tail(chars))
    ELSE 0

\* the character at a position, "" past the end
CharAt(chars, i) == IF i \in 1..Len(chars) THEN chars[i] ELSE ""

AlphaPrefixes == Prefixes \ {"", "#"}

IsError(r) == r.kind \in {"MalformedInteger", "IntegerTooLarge"}

\* C17: with or without a sign character, two or more zeros before an
\* alphabetic prefix and any zero before '#' are an error; and, parsed as
\* every caller parses (no sign required), the token "0" is 0 and an
\* alphabetic prefix at the start of the token with a character after it
\* that is neither a digit of its radix nor a sign is NotInteger
C17_ZerosBeforeThePrefix ==
    result # NoResult =>
        LET rest == Unsigned(call.token)
            zeros == ZerosAhead(rest)
            next == CharAt(rest, zeros + 1)
            first == CharAt(call.token, 1)
            second == CharAt(call.token, 2)
        IN  /\ (zeros >= 2 /\ next \in AlphaPrefixes) => IsError(result)
            /\ (zeros >= 1 /\ next = "#") => IsError(result)
            /\ (~call.require_sign /\ call.token = <<"0">>)
                  => result = OkSome(0)
            /\ (/\ ~call.require_sign
                /\ first \in AlphaPrefixes
                /\ second \notin SignChars \cup {""}
                /\ parse_digit(prefix_radix(first), second) = NoDigit)
                  => result = NotInteger

\* C17 happens: "0#8", a zero before '#', is malformed
C17_Witness ==
    /\ call.token = <<"0", "#", "8">>
    /\ ~call.require_sign
    /\ result = MalformedInteger

\* two zeros before a prefix letter are malformed, a letter followed by no
\* digit of its radix is no integer
TwoZerosBeforeALetter ==
    /\ call.token = <<"0", "0", "X">>
    /\ ~call.require_sign
    /\ result = MalformedInteger
LetterThenNoDigit ==
    /\ call.token = <<"X", "g">>
    /\ ~call.require_sign
    /\ result = NotInteger

\* with a sign required, which no caller asks for, the same token is
\* malformed for want of a sign
LetterThenNoDigitSignRequired ==
    /\ call.token = <<"X", "g">>
    /\ call.require_sign
    /\ result = MalformedInteger

\* two sign characters side by side at the start of the token or right
\* after its prefix
ConsecutiveSigns(token) ==
    \E i \in 1..3 :
        /\ CharAt(token, i) \in SignChars
        /\ CharAt(token, i + 1) \in SignChars
        /\ \/ i = 1
           \/ i = 2 /\ token[1] \in Prefixes
           \/ i = 3 /\ token[1] = "0" /\ token[2] \in AlphaPrefixes

\* what the claim gives for a token with its signs: an error for two signs,
\* the signed value for one, and for none the value, or an error where a
\* sign is required
Reconciled(f, require_sign) ==
    IF f.sign_before # "" /\ f.sign_after # "" THEN MalformedInteger
    ELSE IF FormSigns(f) = {"-"} THEN OkSome(-FormMagnitude(f))
    ELSE IF FormSigns(f) = {"+"} THEN OkSome(FormMagnitude(f))
    ELSE IF require_sign THEN MalformedInteger
    ELSE OkSome(FormMagnitude(f))

\* a form that is an integer of the grammar but for its signs, with a
\* magnitude that fits
SignsAside(f) ==
    /\ f.kind = "form"
    /\ f.zeros_before <= 1
    /\ f.prefix = "#" => f.zeros_before = 0
    /\ FormMagnitude(f) >= 0

\* C18: a sign both before and after the prefix, or two signs side by
\* side, are an error; one sign is the sign of the value; without a sign
\* the value is positive when no sign is required and the token is an
\* error when one is
C18_SignReconciliation ==
    result # NoResult =>
        /\ ConsecutiveSigns(call.token) => IsError(result)
        /\ SignsAside(call.form) =>
              result = Reconciled(call.form, call.require_sign)

\* what does hold: the same for every token but "0"
SignReconciliationButZero ==
    (result # NoResult /\ call.token # <<"0">>) => C18_SignReconciliation

\* the lower-case letter of an alphabetic prefix
LowerPrefix(prefix) ==
    CASE prefix \in {"b", "B"} -> "b"
      [] prefix \in {"o", "O"} -> "o"
      [] prefix \in {"x", "X"} -> "x"

\* a form with an alphabetic prefix, at most one zero before it, and one
\* sign before or after it, or none where none is required
Redundant(c) ==
    /\ c.form.kind = "form"
    /\ c.form.prefix \in AlphaPrefixes
    /\ c.form.zeros_before <= 1
    /\ c.form.sign_before = "" \/ c.form.sign_after = ""
    /\ FormSigns(c.form) = {} => ~c.require_sign

\* C19: for an alphabetic prefix p in either case and valid digits d, every
\* form with one '-' (before or after p, with or without a zero before p,
\* with or without zeros before d) parses as "-" p d does, to minus the
\* value of d; the forms with '+' or no sign parse to the negation of that
C19_RedundantFormsAgree ==
    (result # NoResult /\ Redundant(call)) =>
        LET f == call.form
            ref == parse_integer(<<"-", LowerPrefix(f.prefix)>> \o f.digits,
                                 call.require_sign, call.checks)
            magnitude == Magnitude(f.digits, prefix_radix(f.prefix), 0)
        IN  /\ ref = IF magnitude < 0 THEN IntegerTooLarge
                      ELSE OkSome(-magnitude)
            /\ "-" \in FormSigns(f) => result = ref
            /\ "-" \notin FormSigns(f) =>
                  result = IF ref.kind = "Ok" THEN OkSome(-ref.value) ELSE ref

\* C19 happens: "0X-0A9" parsed to -169, as "-xA9" does
C19_Witness ==
    /\ Redundant(call)
    /\ call.token = <<"0", "X", "-", "0", "A", "9">>
    /\ result = OkSome(-169)

\* the sign, radix and digits parse_integer has read from a token it
\* accepts ("0" is the digit 0 of radix 10)
parsed_parts(string) ==
    LET first == take_sign(string)
        prefix == take_prefix(first.rest)
        second == take_sign(prefix.rest)
    IN  IF prefix.kind = "SingleZero"
        THEN [sign |-> first.sign, radix |-> 10, digits |-> <<"0">>]
        ELSE [sign |-> IF first.sign # NoSign THEN first.sign
                       ELSE second.sign,
              radix |-> prefix.radix, digits |-> second.rest]

\* the canonical token of a sign, a radix and digits: the sign character
\* if there is a sign, the lower-case prefix letter of a radix other than
\* ten, and the digits
Canonical(parts) ==
    (CASE parts.sign = Negative -> <<"-">>
       [] parts.sign = Positive -> <<"+">>
       [] OTHER -> <<>>)
    \o (CASE parts.radix = 2 -> <<"b">>
          [] parts.radix = 8 -> <<"o">>
          [] parts.radix = 16 -> <<"x">>
          [] OTHER -> <<>>)
    \o parts.digits

\* C20: when parse_integer accepts a token, the canonical token of the
\* sign, radix and digits read from it parses, under the same sign
\* requirement and in the same build, to the same value
C20_RoundTrip ==
    (result # NoResult /\ result.kind = "Ok") =>
        parse_integer(Canonical(parsed_parts(call.token)),
                      call.require_sign, call.checks) = result

\* C20 happens: "0b-101" parsed to -5 and its canonical token is "-b101"
C20_Witness ==
    /\ call.token = <<"0", "b", "-", "1", "0", "1">>
    /\ Canonical(parsed_parts(call.token)) = <<"-", "b", "1", "0", "1">>
    /\ result = OkSome(-5)

\* a token read as the claim reads it: the sign it starts with, a zero
\* before a prefix character, the prefix character, a sign after it, and
\* the characters left; without a prefix character the radix is ten and
\* the characters left start right after the first sign
TokenShape(token) ==
    LET sign1 == IF CharAt(token, 1) \in SignChars THEN token[1] ELSE ""
        unsigned == Unsigned(token)
        zero == CharAt(unsigned, 1) = "0"
                    /\ CharAt(unsigned, 2) \in AlphaPrefixes \cup {"#"}
        at == IF zero THEN 2 ELSE 1
        prefix == IF CharAt(unsigned, at) \in AlphaPrefixes \cup {"#"}
                  THEN unsigned[at] ELSE ""
        after == IF prefix = "" THEN unsigned
                 ELSE SubSeq(unsigned, at + 1, Len(unsigned))
        sign2 == IF prefix # "" /\ CharAt(after, 1) \in SignChars
                 THEN after[1] ELSE ""
    IN  [sign1 |-> sign1, zero |-> zero, prefix |-> prefix, sign2 |-> sign2,
         radix |-> prefix_radix(prefix),
         rest |-> IF sign2 = "" THEN after ELSE Tail(after)]

IsDigit(radix, ch) == ch # "" /\ parse_digit(radix, ch) # NoDigit

\* C21: where no sign is missing that is required: when the character
\* after the signs and the prefix is missing or no digit of the radix, the
\* token is MalformedInteger if it has a sign, a zero before the prefix or
\* the prefix '#', and NotInteger otherwise; when that character is a digit
\* and a later character is no digit of the radix, the token is an error
C21_DigitsAfterThePrefix ==
    (/\ result # NoResult
     /\ call.require_sign =>
            TokenShape(call.token).sign1 # "" \/ TokenShape(call.token).sign2 # "")
    =>  LET shape == TokenShape(call.token)
            rest == shape.rest
        IN  /\ ~IsDigit(shape.radix, CharAt(rest, 1)) =>
                  result = IF \/ shape.sign1 # "" \/ shape.sign2 # ""
                              \/ shape.zero \/ shape.prefix = "#"
                           THEN MalformedInteger
                           ELSE NotInteger
            /\ (/\ IsDigit(shape.radix, CharAt(rest, 1))
                /\ \E i \in 2..Len(rest) : ~IsDigit(shape.radix, rest[i]))
                  => IsError(result)

\* what does hold: the same for every token but those that start with a
\* zero and go on with a character that is neither digit, prefix nor sign
DigitsAfterThePrefixButZero ==
    (/\ result # NoResult
     /\ LET unsigned == Unsigned(call.token)
            other == CharAt(unsigned, 2)
        IN  ~(/\ CharAt(call.token, 1) = "0"
              /\ other \notin SignChars \cup AlphaPrefixes \cup {"", "#"}
              /\ ~IsDigit(10, other)))
    => C21_DigitsAfterThePrefix

\* the positions of the token that hold a sign character
SignPositions(token) == {i \in 1..Len(token) : token[i] \in SignChars}

\* C34: when a sign is required, parse_integer returns an integer only for
\* a token with exactly one sign character, and a token without a sign that
\* is an integer when none is required, "0" included, is an error
C34_RequiredSign ==
    (result # NoResult /\ call.require_sign) =>
        /\ result.kind = "Ok" =>
              Cardinality(SignPositions(call.token)) = 1
        /\ (/\ SignPositions(call.token) = {}
            /\ parse_integer(call.token, FALSE, call.checks).kind = "Ok")
              => IsError(result)

\* what does hold: the same for every token but "0"
RequiredSignButZero ==
    (result # NoResult /\ call.token # <<"0">>) => C34_RequiredSign

\* "08" is an integer without a required sign and an error with one
UnsignedIsAnError ==
    /\ call.token = <<"0", "8">> /\ call.require_sign
    /\ result = MalformedInteger

\* C35: parse_integer reports NotInteger only for a token that begins
\* with an alphabetic prefix followed by no digit of its radix, or with a
\* character that is no sign, no '#' and no decimal digit; a token that
\* begins with a sign, '#' or a decimal digit is an integer or an error
C35_NotIntegerOnlyForOtherTypes ==
    result = NotInteger =>
        LET first == CharAt(call.token, 1)
        IN  /\ first \notin SignChars \cup {"#"}
            /\ ~IsDigit(10, first)
            /\ first \in AlphaPrefixes =>
                  ~IsDigit(prefix_radix(first), CharAt(call.token, 2))

\* what does hold: the same for every token but those that start with a
\* zero and go on with a character that is neither digit, prefix nor sign
NotIntegerOnlyForOtherTypesButZero ==
    (/\ result = NotInteger
     /\ ~(/\ CharAt(call.token, 1) = "0"
           /\ CharAt(call.token, 2) \notin
                  SignChars \cup AlphaPrefixes \cup {"", "#"}
           /\ ~IsDigit(10, CharAt(call.token, 2))))
    => C35_NotIntegerOnlyForOtherTypes

\* "bg": a prefix letter followed by no binary digit is no integer
PrefixThenNoDigit ==
    /\ call.token = <<"b", "g">>
    /\ result = NotInteger

(***************************************************************************)
(* The token classifier (command/parse/naive.rs) and parse_register.       *)
(***************************************************************************)
Letters ==
    {"a", "b", "c", "d", "e", "f", "g", "h", "i", "j", "k", "l", "m", "n", "o",
     "p", "q", "r", "s", "t", "u", "v", "w", "x", "y", "z",
     "A", "B", "C", "D", "E", "F", "G", "H", "I", "J", "K", "L", "M", "N", "O",
     "P", "Q", "R", "S", "T", "U", "V", "W", "X", "Y", "Z"}

\* label::can_start_with: a letter or an underscore
can_start_with(ch) == ch \in Letters \cup {"_"}

\* label::can_contain: a character a label goes on with
can_contain(ch) == can_start_with(ch) \/ IndexIn(DecimalDigits, ch) > 0

is_str_pc_offset(string) == string # <<>> /\ Head(string) = "^"

is_str_register(string) ==
    /\ CharAt(string, 1) \in {"r", "R"}
    /\ IndexIn(DecimalDigits, CharAt(string, 2)) \in 1..8
    /\ ~(Len(string) >= 3 /\ can_contain(string[3]))

\* faulty variant: no sign is taken after the prefix letter
is_str_integer_unsigned(string) ==
    IF string # <<>>
           /\ (Head(string) \in {"-", "+", "#"}
                   \/ IndexIn(DecimalDigits, Head(string)) > 0)
    THEN TRUE
    ELSE IF CharAt(string, 1) \notin AlphaPrefixes THEN FALSE
    ELSE LET radix == prefix_radix(string[1])
             chars == Tail(string)
         IN  /\ chars # <<>>
             /\ \A i \in 1..Len(chars) : parse_digit(radix, chars[i]) # NoDigit

is_str_integer(string) ==
    IF string # <<>>
           /\ (Head(string) \in {"-", "+", "#"}
                   \/ IndexIn(DecimalDigits, Head(string)) > 0)
    THEN TRUE
    ELSE IF CharAt(string, 1) \notin AlphaPrefixes THEN FALSE
    ELSE LET radix == prefix_radix(string[1])
             chars == IF CharAt(string, 2) \in SignChars
                      THEN SubSeq(string, 3, Len(string))
                      ELSE Tail(string)
         IN  /\ chars # <<>>
             /\ \A i \in 1..Len(chars) : parse_digit(radix, chars[i]) # NoDigit

is_str_label(string) == string # <<>> /\ can_start_with(Head(string))

\* faulty variant: the label test before the integer test
try_from_label_first(string) ==
    IF is_str_pc_offset(string) THEN "PCOffset"
    ELSE IF is_str_register(string) THEN "Register"
    ELSE IF is_str_label(string) THEN "Label"
    ELSE IF is_str_integer(string) THEN "Integer"
    ELSE "None"

\* NaiveType::try_from, "None" for Err(())
try_from(string) ==
    IF is_str_pc_offset(string) THEN "PCOffset"
    ELSE IF is_str_register(string) THEN "Register"
    ELSE IF is_str_integer(string) THEN "Integer"
    ELSE IF is_str_label(string) THEN "Label"
    ELSE "None"

NoRegister == [kind |-> "None"]
SomeRegister(n) == [kind |-> "Some", register |-> n]

\* parse_register
parse_register(string) ==
    IF CharAt(string, 1) \notin {"r", "R"} THEN NoRegister
    ELSE IF IndexIn(DecimalDigits, CharAt(string, 2)) \notin 1..8
    THEN NoRegister
    ELSE IF Len(string) >= 3 THEN NoRegister
    ELSE SomeRegister(IndexIn(DecimalDigits, string[2]) - 1)

ClassifyAlphabet ==
    {"^", "r", "R", "0", "7", "8", "x", "b", "g", "-", "#"}
MaxClassifyLen == 3
ClassifyTokens == UNION {[1..n -> ClassifyAlphabet] : n \in 0..MaxClassifyLen}

ClassifyInit ==
    /\ MachineIdle
    /\ call \in {[fn |-> f, token |-> t] :
                    f \in {"try_from", "parse_register"},
                    t \in ClassifyTokens}
    /\ result = NoResult

TryFrom ==
    /\ call.fn = "try_from"
    /\ result = NoResult
    /\ result' = [kind |-> try_from(call.token)]
    /\ UNCHANGED <<machine, call>>

ParseRegister ==
    /\ call.fn = "parse_register"
    /\ result = NoResult
    /\ result' = parse_register(call.token)
    /\ UNCHANGED <<machine, call>>

ClassifyNext == TryFrom \/ ParseRegister

ClassifySpec == ClassifyInit /\ [][ClassifyNext]_vars

\* the integer rule of the claim: a first character in -+#0-9, or a prefix
\* letter, an optional sign, and one or more digits of the prefix's radix
IntegerRule(token) ==
    \/ CharAt(token, 1) \in {"-", "+", "#"}
    \/ IsDigit(10, CharAt(token, 1))
    \/ /\ CharAt(token, 1) \in AlphaPrefixes
       /\ \E from \in {2, 3} :
             /\ from = 3 => CharAt(token, 2) \in SignChars
             /\ from <= Len(token)
             /\ \A i \in from..Len(token) :
                   IsDigit(prefix_radix(token[1]), token[i])

\* C22: a token that starts with '^' is PCOffset; a token of the integer
\* rule that is not PCOffset or Register is Integer, also when it starts
\* with a letter; Label is left for the tokens outside the integer rule
C22_IntegerBeforeLabel ==
    (call.fn = "try_from" /\ result # NoResult) =>
        /\ CharAt(call.token, 1) = "^" => result.kind = "PCOffset"
        /\ (IntegerRule(call.token) /\ CharAt(call.token, 1) \in Letters)
              => result.kind = "Integer"
        /\ (IntegerRule(call.token)
                /\ result.kind \notin {"PCOffset", "Register"})
              => result.kind = "Integer"
        /\ result.kind = "Label" => ~IntegerRule(call.token)

\* C22 happens: "xb0" starts with a letter and is classified Integer
C22_Witness ==
    /\ call.fn = "try_from"
    /\ call.token = <<"x", "b", "0">>
    /\ result.kind = "Integer"

RegisterTokens ==
    {<<r, d>> : r \in {"r", "R"},
                d \in {"0", "1", "2", "3", "4", "5", "6", "7"}}

\* C23: the classifier returns Register for exactly the tokens r0..r7 and
\* R0..R7, and parse_register yields a register for exactly these, so the
\* one does when the other does
C23_RegisterTokens ==
    result # NoResult =>
        /\ call.fn = "try_from" =>
              /\ result.kind = "Register" <=> call.token \in RegisterTokens
              /\ result.kind = "Register"
                    <=> parse_register(call.token) # NoRegister
        /\ call.fn = "parse_register" =>
              /\ result # NoRegister <=> call.token \in RegisterTokens
              /\ result # NoRegister <=> try_from(call.token) = "Register"

\* C36: a token that parse_integer, with no sign required, returns an
\* integer for is classified Integer, never Register, Label, PCOffset or
\* nothing
C36_ParsedIntegersAreClassifiedInteger ==
    (/\ call.fn = "try_from" /\ result # NoResult
     /\ call.token # <<>>
     /\ parse_integer(call.token, FALSE, TRUE).kind = "Ok")
    => result.kind = "Integer"

\* C36 happens: "x-7" is minus seven for the parser and starts with a letter
C36_Witness ==
    /\ call.fn = "try_from"
    /\ call.token = <<"x", "-", "7">>
    /\ parse_integer(call.token, FALSE, TRUE) = OkSome(-7)
    /\ result.kind = "Integer"

\* the converse does not hold: "-g" is classified Integer and is malformed
ClassifiedIntegerNotParsed ==
    /\ call.fn = "try_from"
    /\ call.token = <<"-", "g">>
    /\ parse_integer(call.token, FALSE, TRUE) = MalformedInteger
    /\ result.kind = "Integer"

(***************************************************************************)
(* The argument iterator (ArgIter, debugger/parse.rs).  The buffer is a    *)
(* sequence of characters, the cursor the number of characters consumed.   *)
(***************************************************************************)
RECURSIVE skip_spaces(_, _)
skip_spaces(buffer, i) ==
    IF i <= Len(buffer) /\ buffer[i] = " " THEN skip_spaces(buffer, i + 1)
    ELSE i

RECURSIVE argument_end(_, _)
argument_end(buffer, i) ==
    IF i <= Len(buffer) /\ buffer[i] \notin {" ", ";", "\n"}
    THEN argument_end(buffer, i + 1)
    ELSE i

\* what next_str returns: an argument or none, and the cursor; or the
\* debug_assert on a ';' or a newline failed
NextArgument(some, argument, cursor) ==
    [some |-> some, argument |-> argument, cursor |-> cursor,
     panic |-> FALSE]
NextArgumentPanic(cursor) ==
    [some |-> FALSE, argument |-> <<>>, cursor |-> cursor, panic |-> TRUE]

\* the loop read a ';' or a newline: the character it stopped at
handled_already(buffer, end) ==
    end <= Len(buffer) /\ buffer[end] \in {";", "\n"}

\* faulty variant: the spaces before the argument are not skipped
next_str_unskipped(buffer, cursor, chk) ==
    LET start == cursor + 1
        end == argument_end(buffer, start)
    IN  IF chk /\ handled_already(buffer, end) THEN NextArgumentPanic(cursor)
        ELSE IF start = end THEN NextArgument(FALSE, <<>>, cursor)
        ELSE NextArgument(TRUE, SubSeq(buffer, start, end - 1), end - 1)

\* ArgIter::next_str: the next argument, if there is one, and the cursor.
\* The argument ends at a space, a ';' or a newline; reading a ';' or a
\* newline fails the debug_assert of a checked build (chk)
next_str(buffer, cursor, chk) ==
    LET start == skip_spaces(buffer, cursor + 1)
        end == argument_end(buffer, start)
    IN  IF chk /\ handled_already(buffer, end) THEN NextArgumentPanic(cursor)
        ELSE IF start = end THEN NextArgument(FALSE, <<>>, cursor)
        ELSE NextArgument(TRUE, SubSeq(buffer, start, end - 1), end - 1)

\* values of the argument methods
Integer(v) == [kind |-> "Integer", value |-> v]
PCOffset(n) == [kind |-> "PCOffset", offset |-> n]
Unit == [kind |-> "Unit"]

\* what an argument method returns, and the cursor it leaves: Ok(value),
\* an error::Argument, or a panic
ArgOk(value, cursor) ==
    [kind |-> "Ok", value |-> value, error |-> "None", argument_name |-> "",
     string |-> <<>>, cursor |-> cursor]
ArgMissing(name, cursor) ==
    [kind |-> "MissingArgument", value |-> Unit, error |-> "None",
     argument_name |-> name, string |-> <<>>, cursor |-> cursor]
ArgInvalid(error, name, string, cursor) ==
    [kind |-> "InvalidValue", value |-> Unit, error |-> error,
     argument_name |-> name, string |-> string, cursor |-> cursor]
ArgTooMany(cursor) ==
    [kind |-> "TooManyArguments", value |-> Unit, error |-> "None",
     argument_name |-> "", string |-> <<>>, cursor |-> cursor]
ArgPanic ==
    [kind |-> "Panic", value |-> Unit, error |-> "None", argument_name |-> "",
     string |-> <<>>, cursor |-> 0]

\* the default of an inner method, handed out at the cursor
ArgDefault(default, name, cursor) ==
    IF default = Unit THEN ArgMissing(name, cursor)
    ELSE ArgOk(default, cursor)

\* faulty variant: the conversion keeps the low 16 bits
int_as_u16_wrapping(integer) == [ok |-> TRUE, value |-> integer % Word]

\* int_as_u16
int_as_u16(integer) ==
    IF integer \in 0..(Word - 1) THEN [ok |-> TRUE, value |-> integer]
    ELSE [ok |-> FALSE, value |-> 0]

\* what the argument methods make of the result of parse_integer: the
\* errors wrapped with the name and the text, the value through int_as_u16
wrap_parsed(parsed, argument, name, cursor) ==
    CASE parsed.kind = "Panic" -> ArgPanic
      [] parsed.kind \in {"MalformedInteger", "IntegerTooLarge"} ->
            ArgInvalid(parsed.kind, name, argument, cursor)
      [] parsed.kind = "NotInteger" ->
            ArgInvalid("NotInteger", name, argument, cursor)
      [] OTHER ->
            IF int_as_u16(parsed.value).ok
            THEN ArgOk(Integer(int_as_u16(parsed.value).value), cursor)
            ELSE ArgInvalid("IntegerTooLarge", name, argument, cursor)

\* parse_integer(argument, false) and int_as_u16, with the errors wrapped
\* as the argument methods wrap them; NotInteger is left to the caller
parse_u16(argument, name, cursor, chk) ==
    wrap_parsed(parse_integer(argument, FALSE, chk), argument, name, cursor)

\* next_integer_inner, Ok(None) of parse_integer: the type is mismatched
integer_or_mismatched(parsed, argument, name, cursor) ==
    IF parsed.error = "NotInteger"
    THEN ArgInvalid("MismatchedType", name, argument, cursor)
    ELSE parsed

\* ArgIter::next_integer_inner; the default Unit stands for the
\* MissingArgument error
next_integer_inner(buffer, cursor, name, default, chk) ==
    LET next == next_str(buffer, cursor, chk)
    IN  IF next.panic THEN ArgPanic
        ELSE IF ~next.some THEN ArgDefault(default, name, cursor)
        ELSE integer_or_mismatched(
                parse_u16(next.argument, name, next.cursor, chk),
                next.argument, name, next.cursor)

next_integer(buffer, cursor, name, chk) ==
    next_integer_inner(buffer, cursor, name, Unit, chk)

\* faulty variant: the value is not raised to 1
next_positive_integer_or_default_unclamped(buffer, cursor, name, chk) ==
    next_integer_inner(buffer, cursor, name, Integer(1), chk)

next_positive_integer_or_default(buffer, cursor, name, chk) ==
    LET inner == next_integer_inner(buffer, cursor, name, Integer(1), chk)
    IN  IF inner.kind = "Ok" /\ inner.value.value < 1
        THEN ArgOk(Integer(1), inner.cursor)
        ELSE inner

\* the location methods, after the register: an address for an integer,
\* todo!() where parse_integer finds no integer
address_of(parsed, cursor) ==
    IF parsed.error = "NotInteger" THEN ArgPanic
    ELSE IF parsed.kind = "Ok"
    THEN ArgOk(Address(parsed.value.value), cursor)
    ELSE parsed

address_or_todo(argument, name, cursor, chk) ==
    address_of(parse_u16(argument, name, cursor, chk), cursor)

next_location(buffer, cursor, name, chk) ==
    LET next == next_str(buffer, cursor, chk)
        register == parse_register(next.argument)
    IN  IF next.panic THEN ArgPanic
        ELSE IF ~next.some THEN ArgMissing(name, cursor)
        ELSE IF register # NoRegister
        THEN ArgOk(Register(register.register), next.cursor)
        ELSE address_or_todo(next.argument, name, next.cursor, chk)

next_memory_location_inner(buffer, cursor, name, default, chk) ==
    LET next == next_str(buffer, cursor, chk)
    IN  IF next.panic THEN ArgPanic
        ELSE IF ~next.some THEN ArgDefault(default, name, cursor)
        ELSE address_or_todo(next.argument, name, next.cursor, chk)

next_memory_location(buffer, cursor, name, chk) ==
    next_memory_location_inner(buffer, cursor, name, Unit, chk)

next_memory_location_or_default(buffer, cursor, name, chk) ==
    next_memory_location_inner(buffer, cursor, name, PCOffset(0), chk)

expect_end(buffer, cursor, chk) ==
    LET next == next_str(buffer, cursor, chk)
    IN  IF next.panic THEN ArgPanic
        ELSE IF ~next.some THEN ArgOk(Unit, cursor)
        ELSE ArgTooMany(next.cursor)

\* collect_rest is todo!()
collect_rest(buffer, cursor) == ArgPanic

\* arguments: integers about the ends of the u16 and i32 ranges,
\* registers, and tokens that are no integer
ArgTokens ==
    {<<"0">>, <<"-", "0">>, <<"1">>, <<"-", "1">>, <<"-", "5">>, <<"7">>,
     <<"6", "5", "5", "3", "5">>, <<"6", "5", "5", "3", "6">>,
     <<"x", "f", "f", "f", "f">>, <<"x", "1", "0", "0", "0", "0">>,
     <<"-", "x", "1">>, <<"#", "1", "2">>,
     <<"2", "1", "4", "7", "4", "8", "3", "6", "4", "8">>,
     <<"2", "1", "4", "7", "4", "8", "3", "6", "4", "8", "0">>,
     <<"r", "3">>, <<"R", "7">>, <<"r", "8">>, <<"F", "o", "o">>,
     <<"^", "2">>, <<"x">>, <<"0", "g">>, <<"1", "g">>}

MaxPad == 1

\* lines: spaces, an argument or none, and nothing, a space or another
\* argument after it
ArgLines ==
    {Rep(" ", n) \o t \o rest :
        n \in 0..MaxPad, t \in ArgTokens \cup {<<>>},
        rest \in {<<>>, <<" ">>, <<" ", "7">>}}

ArgMethods ==
    {"next_integer", "next_positive_integer_or_default", "next_location",
     "next_memory_location", "next_memory_location_or_default",
     "collect_rest", "expect_end"}

ArgInit ==
    /\ MachineIdle
    /\ call \in [fn : ArgMethods, buffer : ArgLines, argument_name : {"count"},
                  checks : BOOLEAN]
    /\ result = NoResult

NextInteger ==
    /\ call.fn = "next_integer"
    /\ result = NoResult
    /\ result' = next_integer(call.buffer, 0, call.argument_name, call.checks)
    /\ UNCHANGED <<machine, call>>

NextPositiveIntegerOrDefault ==
    /\ call.fn = "next_positive_integer_or_default"
    /\ result = NoResult
    /\ result' = next_positive_integer_or_default(
                      call.buffer, 0, call.argument_name, call.checks)
    /\ UNCHANGED <<machine, call>>

NextLocation ==
    /\ call.fn = "next_location"
    /\ result = NoResult
    /\ result' = next_location(call.buffer, 0, call.argument_name, call.checks)
    /\ UNCHANGED <<machine, call>>

NextMemoryLocation ==
    /\ call.fn = "next_memory_location"
    /\ result = NoResult
    /\ result' = next_memory_location(call.buffer, 0, call.argument_name,
                                      call.checks)
    /\ UNCHANGED <<machine, call>>

NextMemoryLocationOrDefault ==
    /\ call.fn = "next_memory_location_or_default"
    /\ result = NoResult
    /\ result' = next_memory_location_or_default(
                      call.buffer, 0, call.argument_name, call.checks)
    /\ UNCHANGED <<machine, call>>

CollectRest ==
    /\ call.fn = "collect_rest"
    /\ result = NoResult
    /\ result' = collect_rest(call.buffer, 0)
    /\ UNCHANGED <<machine, call>>

ExpectEnd ==
    /\ call.fn = "expect_end"
    /\ result = NoResult
    /\ result' = expect_end(call.buffer, 0, call.checks)
    /\ UNCHANGED <<machine, call>>

ArgNext ==
    \/ NextInteger
    \/ NextPositiveIntegerOrDefault
    \/ NextLocation
    \/ NextMemoryLocation
    \/ NextMemoryLocationOrDefault
    \/ CollectRest
    \/ ExpectEnd

ArgSpec == ArgInit /\ [][ArgNext]_vars

\* the first argument of the line of a call, and what parse_integer makes
\* of it where there is one
FirstArgument == next_str(call.buffer, 0, call.checks)
FirstParsed == parse_integer(FirstArgument.argument, FALSE, call.checks)

\* C24: next_positive_integer_or_default gives 1 when the argument is
\* missing and when the argument parses to a value of zero or less, and
\* gives no value below 1
C24_NonPositiveBecomesOne ==
    (call.fn = "next_positive_integer_or_default" /\ result # NoResult) =>
        /\ ~FirstArgument.some => result = ArgOk(Integer(1), 0)
        /\ (FirstArgument.some /\ FirstParsed.kind = "Ok"
                /\ FirstParsed.value <= 0)
              => result = ArgOk(Integer(1), FirstArgument.cursor)
        /\ result.kind = "Ok" => result.value.value >= 1

\* what does hold: 1 for a missing argument and for zero, and no value
\* below 1, so that the count of step is at least 1
PositiveOnSuccess ==
    (call.fn = "next_positive_integer_or_default" /\ result # NoResult) =>
        /\ ~FirstArgument.some => result = ArgOk(Integer(1), 0)
        /\ (FirstArgument.some /\ FirstParsed = OkSome(0))
              => result = ArgOk(Integer(1), FirstArgument.cursor)
        /\ result.kind = "Ok" => result.value.value \in 1..(Word - 1)

\* the methods that return an integer argument or an address
IntegerMethods ==
    {"next_integer", "next_location", "next_memory_location",
     "next_memory_location_or_default"}

\* the value a method wraps a u16 in
Wrapped(fn, v) == IF fn = "next_integer" THEN Integer(v) ELSE Address(v)

\* C25: an argument that parses to a 32-bit value is accepted exactly when
\* the value is in 0..65535, and is then returned as it is; below 0 and
\* above 65535 the result is InvalidValue with IntegerTooLarge, the name
\* of the argument and its text; no other integer or address is returned
\* for an argument
C25_U16OrTooLarge ==
    (/\ call.fn \in IntegerMethods
     /\ result # NoResult
     /\ FirstArgument.some
     /\ call.fn = "next_location" =>
            FirstArgument.argument \notin RegisterTokens)
    =>  /\ FirstParsed.kind = "Ok" =>
              result = IF FirstParsed.value \in 0..65535
                       THEN ArgOk(Wrapped(call.fn, FirstParsed.value),
                                  FirstArgument.cursor)
                       ELSE ArgInvalid("IntegerTooLarge", call.argument_name,
                                       FirstArgument.argument,
                                       FirstArgument.cursor)
        /\ result.kind = "Ok" =>
              /\ FirstParsed.kind = "Ok"
              /\ result.value = Wrapped(call.fn, FirstParsed.value)

\* C25 happens: "65536" as an address is refused as too large, with the
\* name and the text
C25_Witness ==
    /\ call.fn = "next_memory_location"
    /\ FirstArgument.argument = <<"6", "5", "5", "3", "6">>
    /\ FirstParsed = OkSome(65536)
    /\ result.kind = "InvalidValue"
    /\ result.error = "IntegerTooLarge"
    /\ result.argument_name = call.argument_name
    /\ result.string = FirstArgument.argument

\* C28: every argument method returns a value or an error for every
\* argument, a label and a PC offset included, and none aborts (the
\* arguments whose digits overflow the 32-bit accumulator set aside)
C28_NoArgumentMethodAborts ==
    (/\ result # NoResult
     /\ FirstArgument.some =>
            parse_integer(FirstArgument.argument, FALSE, TRUE).kind # "Panic")
    => result.kind # "Panic"

\* what does hold: all methods but collect_rest return a value or an
\* error for an argument that is missing, a register or an integer that
\* parse_integer takes without overflow
NoAbortOnIntegers ==
    (/\ result # NoResult
     /\ call.fn # "collect_rest"
     /\ FirstArgument.some =>
            /\ parse_integer(FirstArgument.argument, FALSE, TRUE).kind
                   \notin {"Panic", "NotInteger"})
    => result.kind # "Panic"

(***************************************************************************)
(* Command names (debugger/parse.rs): the tables of aliases, the           *)
(* comparison of a name with the aliases, and ArgIter::get_command_name.   *)
(* A name is a sequence of characters, as an argument is.                  *)
(***************************************************************************)
LowerCase ==
    <<"a", "b", "c", "d", "e", "f", "g", "h", "i", "j", "k", "l", "m", "n",
      "o", "p", "q", "r", "s", "t", "u", "v", "w", "x", "y", "z">>
UpperCase ==
    <<"A", "B", "C", "D", "E", "F", "G", "H", "I", "J", "K", "L", "M", "N",
      "O", "P", "Q", "R", "S", "T", "U", "V", "W", "X", "Y", "Z">>

\* char::to_ascii_lowercase and char::to_ascii_uppercase
to_ascii_lowercase(ch) ==
    IF \E i \in 1..Len(UpperCase) : UpperCase[i] = ch
    THEN LowerCase[CHOOSE i \in 1..Len(UpperCase) : UpperCase[i] = ch]
    ELSE ch
to_ascii_uppercase(ch) ==
    IF \E i \in 1..Len(LowerCase) : LowerCase[i] = ch
    THEN UpperCase[CHOOSE i \in 1..Len(LowerCase) : LowerCase[i] = ch]
    ELSE ch

\* str::eq_ignore_ascii_case: the same length, and the same characters
\* but for the case of the ASCII letters
eq_ignore_ascii_case(a, b) ==
    /\ Len(a) = Len(b)
    /\ \A i \in 1..Len(a) : to_ascii_lowercase(a[i]) = to_ascii_lowercase(b[i])

\* the tables, in the order of the source
COMMANDS ==
    <<
    [command |-> "Help",
     candidates |-> <<<<"h", "e", "l", "p">>,
                     <<"-", "-", "h", "e", "l", "p">>,
                     <<"h">>,
                     <<"-", "h">>>>],
    [command |-> "Continue",
     candidates |-> <<<<"c", "o", "n", "t", "i", "n", "u", "e">>,
                     <<"c", "o", "n", "t">>,
                     <<"c">>>>],
    [command |-> "Finish",
     candidates |-> <<<<"f", "i", "n", "i", "s", "h">>,
                     <<"f", "i", "n">>,
                     <<"f">>>>],
    [command |-> "Exit",
     candidates |-> <<<<"e", "x", "i", "t">>>>],
    [command |-> "Quit",
     candidates |-> <<<<"q", "u", "i", "t">>,
                     <<"q">>>>],
    [command |-> "Registers",
     candidates |-> <<<<"r", "e", "g", "i", "s", "t", "e", "r", "s">>,
                     <<"r", "e", "g">>,
                     <<"r">>>>],
    [command |-> "Reset",
     candidates |-> <<<<"r", "e", "s", "e", "t">>>>],
    [command |-> "Step",
     candidates |-> <<<<"p", "r", "o", "g", "r", "e", "s", "s">>,
                     <<"p">>>>],
    [command |-> "Next",
     candidates |-> <<<<"n", "e", "x", "t">>,
                     <<"n">>>>],
    [command |-> "Get",
     candidates |-> <<<<"g", "e", "t">>,
                     <<"g">>>>],
    [command |-> "Set",
     candidates |-> <<<<"s", "e", "t">>,
                     <<"s">>>>],
    [command |-> "Jump",
     candidates |-> <<<<"j", "u", "m", "p">>,
                     <<"j">>>>],
    [command |-> "Source",
     candidates |-> <<<<"a", "s", "s", "e", "m", "b", "l", "y">>,
                     <<"a", "s", "m">>,
                     <<"a">>>>],
    [command |-> "Eval",
     candidates |-> <<<<"e", "v", "a", "l">>,
                     <<"e">>>>],
    [command |-> "BreakList",
     candidates |-> <<<<"b", "r", "e", "a", "k", "l", "i", "s", "t">>,
                     <<"b", "l">>>>],
    [command |-> "BreakAdd",
     candidates |-> <<<<"b", "r", "e", "a", "k", "a", "d", "d">>,
                     <<"b", "a">>>>],
    [command |-> "BreakRemove",
     candidates |-> <<<<"b", "r", "e", "a", "k", "r", "e", "m", "o", "v", "e">>,
                     <<"b", "r">>>>]
    >>
BREAK_COMMAND == <<<<"b", "r", "e", "a", "k">>, <<"b">>>>
BREAK_SUBCOMMANDS ==
    <<
    [command |-> "BreakList",
     candidates |-> <<<<"l", "i", "s", "t">>,
                     <<"l">>>>],
    [command |-> "BreakAdd",
     candidates |-> <<<<"a", "d", "d">>,
                     <<"a">>>>],
    [command |-> "BreakRemove",
     candidates |-> <<<<"r", "e", "m", "o", "v", "e">>,
                     <<"r">>>>]
    >>

\* a comparison that takes a name for every alias it is the beginning of
name_matches_prefix(name, candidates) ==
    \E i \in 1..Len(candidates) :
        /\ Len(name) <= Len(candidates[i])
        /\ eq_ignore_ascii_case(name, SubSeq(candidates[i], 1, Len(name)))

\* name_matches: name is one of the candidates, but for the case
name_matches(name, candidates) ==
    \E i \in 1..Len(candidates) : eq_ignore_ascii_case(name, candidates[i])

NoMatch == [some |-> FALSE, command |-> "None"]
SomeMatch(name) == [some |-> TRUE, command |-> name]

\* find_name_match: the command of the first row of the table that has a
\* candidate matching name
find_name_match(name, commands) ==
    LET rows == {i \in 1..Len(commands) :
                    name_matches(name, commands[i].candidates)}
    IN  IF rows = {} THEN NoMatch
        ELSE SomeMatch(
                commands[CHOOSE i \in rows : \A j \in rows : i <= j].command)

\* what get_command_name returns, and the cursor it leaves: Ok(command),
\* an error::Command, or a panic
CommandOk(name, cursor) ==
    [kind |-> "Ok", command |-> name, command_name |-> <<>>,
     subcommand_name |-> <<>>, cursor |-> cursor]
MissingSubcommand(command_name, cursor) ==
    [kind |-> "MissingSubcommand", command |-> "None",
     command_name |-> command_name, subcommand_name |-> <<>>,
     cursor |-> cursor]
InvalidSubcommand(command_name, subcommand_name, cursor) ==
    [kind |-> "InvalidSubcommand", command |-> "None",
     command_name |-> command_name, subcommand_name |-> subcommand_name,
     cursor |-> cursor]
InvalidCommand(command_name, cursor) ==
    [kind |-> "InvalidCommand", command |-> "None",
     command_name |-> command_name, subcommand_name |-> <<>>,
     cursor |-> cursor]
CommandPanic ==
    [kind |-> "Panic", command |-> "None", command_name |-> <<>>,
     subcommand_name |-> <<>>, cursor |-> 0]

\* get_command_name without the branch of the break command
get_command_name_no_break(buffer, cursor, chk) ==
    LET first == next_str(buffer, cursor, chk)
        found == find_name_match(first.argument, COMMANDS)
    IN  IF first.panic \/ (~first.some /\ chk) THEN CommandPanic
        ELSE IF found.some THEN CommandOk(found.command, first.cursor)
        ELSE InvalidCommand(first.argument, first.cursor)

\* ArgIter::get_command_name.  A line without a name fails the
\* debug_assert of a checked build (chk) and is the empty name otherwise.
get_command_name(buffer, cursor, chk) ==
    LET first == next_str(buffer, cursor, chk)
        command_name == first.argument
        found == find_name_match(command_name, COMMANDS)
        second == next_str(buffer, first.cursor, chk)
        subfound == find_name_match(second.argument, BREAK_SUBCOMMANDS)
    IN  IF first.panic \/ (~first.some /\ chk) THEN CommandPanic
        ELSE IF found.some THEN CommandOk(found.command, first.cursor)
        ELSE IF name_matches(command_name, BREAK_COMMAND)
        THEN IF second.panic THEN CommandPanic
             ELSE IF ~second.some
             THEN MissingSubcommand(BREAK_COMMAND[1], second.cursor)
             ELSE IF ~subfound.some
             THEN InvalidSubcommand(BREAK_COMMAND[1], second.argument,
                                    second.cursor)
             ELSE CommandOk(subfound.command, second.cursor)
        ELSE InvalidCommand(command_name, first.cursor)

\* the aliases of a table
Aliases(commands) ==
    UNION {{commands[i].candidates[k] :
                k \in 1..Len(commands[i].candidates)} :
           i \in 1..Len(commands)}

\* a name in lower case, in upper case, and with a capital
Lowered(name) == [i \in 1..Len(name) |-> to_ascii_lowercase(name[i])]
Variants(name) ==
    {name,
     [i \in 1..Len(name) |-> to_ascii_uppercase(name[i])],
     [i \in 1..Len(name) |->
        IF i = 1 THEN to_ascii_uppercase(name[i]) ELSE name[i]]}

\* names that are no alias: the beginning of one, one with a character
\* more, two run together
UnknownNames ==
    {<<"h", "e", "l">>, <<"h", "e", "l", "p", "p">>, <<"b", "r", "e", "a">>,
     <<"b", "r", "e", "a", "k", "a", "d">>, <<"l", "i", "s">>,
     <<"l", "i", "s", "t", "t">>,
     <<"f", "o", "o">>, <<"x">>, <<"-">>}

\* first and second words of a line
FirstWords ==
    UNION {Variants(name) :
           name \in Aliases(COMMANDS)
                    \cup {BREAK_COMMAND[k] : k \in 1..Len(BREAK_COMMAND)}}
    \cup UnknownNames
SecondWords ==
    UNION {Variants(name) : name \in Aliases(BREAK_SUBCOMMANDS)}
    \cup {<<"l", "i", "s">>, <<"l", "i", "s", "t", "t">>,
          <<"h", "e", "l", "p">>}

\* lines: spaces, a word, and nothing or a second word after it; and
\* the lines without a word
CommandLines ==
    {Rep(" ", n) \o first \o rest :
        n \in 0..MaxPad, first \in FirstWords,
        rest \in {<<>>} \cup {<<" ">> \o second : second \in SecondWords}}
    \cup {Rep(" ", n) : n \in 0..MaxPad}

CommandInit ==
    /\ MachineIdle
    /\ call \in [fn : {"get_command_name"}, buffer : CommandLines,
                  checks : BOOLEAN]
    /\ result = NoResult

GetCommandName ==
    /\ call.fn = "get_command_name"
    /\ result = NoResult
    /\ result' = get_command_name(call.buffer, 0, call.checks)
    /\ UNCHANGED <<machine, call>>

CommandNext == GetCommandName

CommandSpec == CommandInit /\ [][CommandNext]_vars

\* the first and the second word of the line of the call
FirstWord == next_str(call.buffer, 0, call.checks)
SecondWord == next_str(call.buffer, FirstWord.cursor, call.checks)

\* the commands of a table that have name among their aliases, in any case
Named(name, commands) ==
    {commands[i].command :
        i \in {j \in 1..Len(commands) :
                 Lowered(name) \in
                    {commands[j].candidates[k] :
                        k \in 1..Len(commands[j].candidates)}}}

\* C26: the first word of a line is looked up among the commands; a first
\* word that is an alias of break has the second word looked up among the
\* subcommands: none is MissingSubcommand, one that is no subcommand is
\* InvalidSubcommand, a subcommand is BreakList, BreakAdd or BreakRemove;
\* a first word that is neither is InvalidCommand with that word
C26_BreakSubcommands ==
    (/\ call.fn = "get_command_name"
     /\ result # NoResult
     /\ FirstWord.some)
    =>  LET name == FirstWord.argument
            sub == SecondWord.argument
        IN  IF Named(name, COMMANDS) # {}
            THEN /\ result.kind = "Ok"
                 /\ result.command \in Named(name, COMMANDS)
            ELSE IF Lowered(name) \in {<<"b", "r", "e", "a", "k">>, <<"b">>}
            THEN IF ~SecondWord.some
                 THEN result = MissingSubcommand(<<"b", "r", "e", "a", "k">>,
                                                 FirstWord.cursor)
                 ELSE IF Named(sub, BREAK_SUBCOMMANDS) = {}
                 THEN result = InvalidSubcommand(
                                  <<"b", "r", "e", "a", "k">>, sub,
                                  SecondWord.cursor)
                 ELSE /\ result.kind = "Ok"
                      /\ result.command \in Named(sub, BREAK_SUBCOMMANDS)
                      /\ result.command \in
                            {"BreakList", "BreakAdd", "BreakRemove"}
            ELSE result = InvalidCommand(name, FirstWord.cursor)

\* C26 happens: "Break listt" is an invalid subcommand of break
C26_Witness ==
    /\ result # NoResult
    /\ FirstWord.argument = <<"B", "r", "e", "a", "k">>
    /\ SecondWord.argument = <<"l", "i", "s", "t", "t">>
    /\ result = InvalidSubcommand(<<"b", "r", "e", "a", "k">>,
                                  SecondWord.argument, SecondWord.cursor)

\* a table backwards, rows and candidates
Backwards(commands) ==
    [i \in 1..Len(commands) |->
        LET row == commands[Len(commands) + 1 - i]
        IN  [command |-> row.command,
             candidates |->
                [k \in 1..Len(row.candidates) |->
                    row.candidates[Len(row.candidates) + 1 - k]]]]

\* the rows of a table that have a candidate matching name
Rows(name, commands) ==
    {i \in 1..Len(commands) : name_matches(name, commands[i].candidates)}

\* C27: a name is compared whole and whatever its case, the first match
\* wins, and no alias is under two commands (the command table with the
\* break aliases, and the subcommand table): a word matches one row at
\* most, the command found is the same with the tables backwards and for
\* the word in lower case, and is the one returned.  Every alias of the
\* tables is the word of some line.
C27_OrderAndCaseDoNotMatter ==
    (call.fn = "get_command_name" /\ result # NoResult /\ FirstWord.some)
    => LET name == FirstWord.argument
           sub == SecondWord.argument
           found == find_name_match(name, COMMANDS)
           subfound == find_name_match(sub, BREAK_SUBCOMMANDS)
       IN  /\ Cardinality(Rows(name, COMMANDS))
                + (IF name_matches(name, BREAK_COMMAND) THEN 1 ELSE 0) <= 1
           /\ found = find_name_match(name, Backwards(COMMANDS))
           /\ found = find_name_match(Lowered(name), COMMANDS)
           /\ found.some => result = CommandOk(found.command,
                                               FirstWord.cursor)
           /\ found.some <=> Cardinality(Named(name, COMMANDS)) = 1
           /\ SecondWord.some =>
                /\ Cardinality(Rows(sub, BREAK_SUBCOMMANDS)) <= 1
                /\ subfound = find_name_match(sub,
                                 Backwards(BREAK_SUBCOMMANDS))
                /\ subfound = find_name_match(Lowered(sub),
                                              BREAK_SUBCOMMANDS)
                /\ (~found.some /\ subfound.some
                    /\ name_matches(name, BREAK_COMMAND))
                   => result = CommandOk(subfound.command,
                                         SecondWord.cursor)

\* C27 happens: "R" is registers among the commands and remove after break
C27_Witness ==
    /\ result # NoResult
    /\ FirstWord.argument = <<"B">>
    /\ SecondWord.argument = <<"R">>
    /\ result = CommandOk("BreakRemove", SecondWord.cursor)
    /\ find_name_match(SecondWord.argument, COMMANDS)
          = SomeMatch("Registers")

(***************************************************************************)
(* Run-mode commands at the prompt, and the breakpoint marker.             *)
(***************************************************************************)
\* a line was read at the prompt and it was a run-mode command
RunCommandRead ==
    /\ ctl = "prompt"
    /\ lines_left' = lines_left - 1
    /\ command'.name \in RunKinds

\* C29: every continue, finish, step and next read at a prompt makes the
\* boundary call that read it return Proceed, with the pc where it was, so
\* that the instruction at the pc runs before the next prompt
C29_RunCommandsProceed ==
    [][RunCommandRead =>
          /\ ctl' = "execute"
          /\ returned' = "Proceed"
          /\ state'.pc = state.pc]_vars

\* what does hold: the same but for `next` at the last address, where a
\* build with overflow checks panics; and the call returns Proceed also
\* when it had paused on a breakpoint or a HALT at the pc
RunCommandsProceedButAtTheLastAddress ==
    [][RunCommandRead =>
          IF command'.name = "Next" /\ state.pc = Word - 1
          THEN ctl' \in {"execute", "panicked"}
          ELSE /\ ctl' = "execute"
               /\ returned' = "Proceed"
               /\ state'.pc = state.pc
               /\ issued'.name = command'.name
               /\ proceeds' = 1]_vars

\* a run-mode command was read at a prompt on a breakpoint, and at one on
\* a HALT, and the call returned Proceed
ProceedsFromABreakpoint ==
    /\ ctl = "execute" /\ returned = "Proceed"
    /\ command.name \in RunKinds
    /\ check.prompted /\ check.bp_pause /\ check.pc = state.pc
    /\ proceeds = 1
ProceedsFromAHalt ==
    /\ ctl = "execute" /\ returned = "Proceed"
    /\ command.name \in RunKinds
    /\ check.prompted /\ check.instr = "TrapHalt" /\ check.pc = state.pc
    /\ proceeds = 1

\* the marker a check leaves: the pc if it paused on the breakpoint there
MarkerOf(c) == IF c.bp_pause THEN c.pc ELSE NoAddress

\* C30 as stated, for every boundary check: the check pauses on a
\* breakpoint at the pc unless the check just before it paused on the
\* breakpoint at that address, a check that does not pause on a breakpoint
\* leaves no marker, and of two checks in a row at an address with a
\* breakpoint one pauses
C30_OneShotDebounce ==
    [][ctl = "boundary" =>
          /\ current_breakpoint' = MarkerOf(check')
          /\ check'.has_bp =>
                (check'.bp_pause <=> MarkerOf(check) # check'.pc)
          /\ (check.pc = check'.pc /\ check.has_bp /\ check'.has_bp) =>
                (check.bp_pause \/ check'.bp_pause)]_vars

\* C30 amended: the same for the boundary checks outside device space
C30_OneShotDebounceOutsideDeviceSpace ==
    [][(ctl = "boundary" /\ ~check'.device) =>
          /\ current_breakpoint' = MarkerOf(check')
          /\ check'.has_bp =>
                (check'.bp_pause <=> MarkerOf(check) # check'.pc)
          /\ (check.pc = check'.pc /\ check.has_bp /\ check'.has_bp) =>
                (check.bp_pause \/ check'.bp_pause)]_vars

\* C30 happens: a check let a breakpoint through, the one before it having
\* paused there, and left no marker
C30_Witness ==
    /\ ctl = "execute"
    /\ ~check.device /\ check.has_bp /\ ~check.bp_pause
    /\ check.last_pause = check.pc
    /\ current_breakpoint = NoAddress

(***************************************************************************)
(* Termination of a boundary call.  The run loop keeps going and a read    *)
(* of the command source returns, with a line or with end-of-input.        *)
(***************************************************************************)
\* the programs that are left by a HALT or by a jump into device space,
\* with breakpoints at the entry and on the way
TerminationInit ==
    /\ Init
    /\ state \in Loaded(Origin, {CallProgram, LeaveProgram})
    /\ Len(breakpoints) = 3

TerminationSpec == TerminationInit /\ [][Next]_vars /\ WF_vars(Next)

\* the Actions of a boundary call, and where the run loop is after each
ActionReturned ==
    \/ ctl = "execute" /\ returned = "Proceed"
    \/ ctl = "detached" /\ returned = "StopDebugger"
    \/ ctl = "done" /\ returned = "ExitProgram"

\* C31: with a command source that reaches its end, a boundary call that
\* waits for a line does not wait for ever and every call returns an
\* Action; at the prompt one line is read at a time, end-of-input stops the
\* debugger, a blank or invalid line changes nothing and is followed by
\* the next line, as is a command that leaves the status WaitForAction;
\* the status Next gives way to WaitForAction at the entry of a call only,
\* never after a command
C31_BoundaryCallsTerminate ==
    /\ (ctl = "prompt") ~> ActionReturned
    /\ [][
           /\ ctl = "boundary" =>
                /\ ctl' \in {"execute", "prompt"}
                /\ ctl' = "execute" => ActionReturned'
           /\ ctl = "prompt" =>
                /\ lines_left' \in {lines_left - 1, lines_left}
                /\ lines_left' = lines_left =>
                      command'.name = "Eof" /\ ctl' = "detached"
                /\ command'.name \in {"Blank", "Invalid"} =>
                      /\ ctl' = "prompt"
                      /\ status' = status /\ state' = state
                /\ ctl' = "prompt" =>
                      /\ status' = WaitForAction
                      /\ command'.name \notin RunKinds
                /\ ctl' # "prompt" => ActionReturned'
                /\ status'.kind # "WaitForAction" => ctl' = "execute"
                /\ command'.name = "Next" => status'.kind = "Next"
       ]_vars

\* what does hold: a call that waits for a line leaves the prompt, and it
\* has returned an Action unless a command aborted the process
BoundaryCallsTerminateOrAbort ==
    /\ (ctl = "prompt") ~> (ActionReturned \/ ctl = "panicked")
    /\ [][
           /\ ctl = "boundary" =>
                /\ ctl' \in {"execute", "prompt"}
                /\ ctl' = "execute" => ActionReturned'
           /\ ctl = "prompt" =>
                /\ lines_left' \in {lines_left - 1, lines_left}
                /\ lines_left' = lines_left =>
                      command'.name = "Eof" /\ ctl' = "detached"
                /\ command'.name \in {"Blank", "Invalid"} =>
                      /\ ctl' = "prompt"
                      /\ status' = status /\ state' = state
                /\ ctl' = "prompt" =>
                      /\ status' = WaitForAction
                      /\ command'.name \notin RunKinds
                /\ ctl' \notin {"prompt", "panicked"} => ActionReturned'
                /\ ctl' = "panicked" =>
                      command'.name \in {"Next", "Get", "Set", "Eval",
                                         "BreakAdd", "BreakRemove"}
                /\ status'.kind # "WaitForAction" => ctl' = "execute"
                /\ command'.name = "Next" /\ ctl' # "panicked" =>
                      status'.kind = "Next"
       ]_vars

\* a call that returned no Action: `next` at the last address aborted it
AbortedByNext ==
    /\ ctl = "panicked" /\ command.name = "Next"
    /\ state.pc = HaltAddress
    /\ check.prompted

\* C31 happens: the last line was skipped, the source was at its end, and
\* the call returned StopDebugger
C31_Witness ==
    /\ ctl = "detached" /\ returned = "StopDebugger"
    /\ command.name = "Eof"
    /\ lines_left = 0
    /\ check.prompted

(***************************************************************************)
(* The return address of `next`.                                           *)
(***************************************************************************)
\* C32: at every pc the operator is prompted at, the halt sentinel
\* included, pc + 1 fits 16 bits, and `next` never fails on it
C32_ReturnAddressFits ==
    /\ ctl = "prompt" => state.pc + 1 < Word
    /\ ctl = "panicked" /\ command.name = "Next" => state.pc + 1 < Word

\* what does hold: the operator is prompted at the halt sentinel after a
\* HALT has executed, and at no other pc does pc + 1 leave 16 bits
PromptedAtTheHaltSentinel ==
    /\ ctl = "prompt" /\ state.pc + 1 >= Word => state.pc = HaltAddress
    /\ ctl = "prompt" /\ state.pc = HaltAddress =>
          ~in_device_space(state.pc)

(***************************************************************************)
(* The decoder of relevant instructions and the sign extension, applied to *)
(* 16-bit words.                                                           *)
(***************************************************************************)
\* every 16-bit word
DecodeWords == 0..(Word - 1)

\* words with at most two bits set, and their complements
ExtendValues ==
    LET few == {0} \cup {2 ^ i : i \in 0..15}
                   \cup {2 ^ i + 2 ^ j : i, j \in 0..15}
    IN  {v \in few : v < Word} \cup {Word - 1 - v : v \in {w \in few : w < Word}}

\* debug_assert!(bits > 0 && bits < 16)
ExtendBits == 1..15

WordInit ==
    /\ MachineIdle
    /\ call \in {[fn |-> "RelevantInstr", word |-> w, bits |-> 0] :
                    w \in DecodeWords}
              \cup {[fn |-> "s_ext", word |-> v, bits |-> n] :
                       v \in ExtendValues, n \in ExtendBits}
    /\ result = NoResult

TryFromWord ==
    /\ call.fn = "RelevantInstr"
    /\ result = NoResult
    /\ result' = [kind |-> RelevantInstr(call.word)]
    /\ UNCHANGED <<machine, call>>

SignExtend ==
    /\ call.fn = "s_ext"
    /\ result = NoResult
    /\ result' = [kind |-> "u16", value |-> s_ext(call.word, call.bits)]
    /\ UNCHANGED <<machine, call>>

WordNext == TryFromWord \/ SignExtend

WordSpec == WordInit /\ [][WordNext]_vars

\* C33: a word decodes to Ret exactly when its opcode is 0xC and its bits
\* 8..6 are 7, to TrapHalt exactly when its opcode is 0xF and its low eight
\* bits are 0x25, and to neither otherwise; the two never coincide
C33_RelevantInstrDecoding ==
    (call.fn = "RelevantInstr" /\ result # NoResult) =>
        LET opcode == call.word \div 4096
            base == (call.word \div 64) % 8
            vector == call.word % 256
            ret == opcode = 12 /\ base = 7
            halt == opcode = 15 /\ vector = 37
        IN  /\ result.kind = "Ret" <=> ret
            /\ result.kind = "TrapHalt" <=> halt
            /\ result.kind = "None" <=> ~ret /\ ~halt
            /\ ~(ret /\ halt)

\* RET through R7 with the unused bits 11..9 set: 0xCFC0
C33_Witness ==
    /\ call.fn = "RelevantInstr" /\ call.word = 53184
    /\ result = [kind |-> "Ret"]

\* HALT with the unused bits 11..8 set: 0xFF25
DecodesHalt ==
    /\ call.fn = "RelevantInstr" /\ call.word = 65317
    /\ result = [kind |-> "TrapHalt"]

\* C39: for 0 < bits < 16, s_ext keeps the low `bits` bits of the value
\* and copies bit bits-1 into every higher bit
C39_SignExtension ==
    (call.fn = "s_ext" /\ result # NoResult) =>
        LET low == call.word % (2 ^ call.bits)
            negative == (call.word \div (2 ^ (call.bits - 1))) % 2 = 1
        IN  /\ result.value \in 0..(Word - 1)
            /\ result.value % (2 ^ call.bits) = low
            /\ result.value \div (2 ^ call.bits) =
                  IF negative THEN 2 ^ (16 - call.bits) - 1 ELSE 0

\* 0xFFEF over five bits: the low bits are 0b01111, the result is 0x000F
KeepsLowBits ==
    /\ call = [fn |-> "s_ext", word |-> 65519, bits |-> 5]
    /\ result = [kind |-> "u16", value |-> 15]

\* 0x0010 over five bits: bit 4 is copied upwards, the result is 0xFFF0
C39_Witness ==
    /\ call = [fn |-> "s_ext", word |-> 16, bits |-> 5]
    /\ result = [kind |-> "u16", value |-> 65520]

(***************************************************************************)
(* One argument iterator over a line, used for several calls in a row.     *)
(* `call` holds the line and what the caller passes, `result` the          *)
(* iterator, the arguments handed out so far and what the last call        *)
(* returned.                                                               *)
(***************************************************************************)
\* a line holds no ';' and no newline; a tab is a character like any other
IterAlphabet == {" ", "7", "\t"}
MaxLineLen == 5
MaxCalls == 3
IterLines == UNION {[1..n -> IterAlphabet] : n \in 0..MaxLineLen}
ExpectedCounts == {1, 2}

\* actual_count: 99, // TODO
ActualCountTodo == 99

\* error::Argument::MissingArgument as next_integer builds it
MissingArgument(argument_name, expected_count) ==
    [kind |-> "MissingArgument", argument_name |-> argument_name,
     expected_count |-> expected_count, actual_count |-> ActualCountTodo]

\* what a call on the iterator returned, when it is no MissingArgument
Returned(kind) ==
    [kind |-> kind, argument_name |-> "", expected_count |-> 0,
     actual_count |-> 0]

\* impl From<&str> for ArgIter
ArgIter(buffer) == [buffer |-> buffer, cursor |-> 0, arg_count |-> 0]

IterInit ==
    /\ MachineIdle
    /\ call \in [fn : {"ArgIter"}, buffer : IterLines,
                  argument_name : {"count"}, expected_count : ExpectedCounts,
                  checks : BOOLEAN]
    /\ result = [kind |-> "ArgIter", iter |-> ArgIter(call.buffer),
                 calls |-> 0, requests |-> 0, returned |-> <<>>,
                 before |-> 0, fn |-> "from", last |-> Returned("ArgIter")]

\* the iterator after a call that left the cursor at `cursor`; arg_count
\* is assigned nowhere
Advanced(iter, cursor) == [iter EXCEPT !.cursor = cursor]

\* the arguments handed out so far, with the one of this call, if any
Handed(next) ==
    IF next.some THEN Append(result.returned, next.argument)
    ELSE result.returned

IterNextStr ==
    /\ result.calls < MaxCalls
    /\ LET next == next_str(result.iter.buffer, result.iter.cursor,
                           call.checks)
       IN  result' = [result EXCEPT
                !.iter = Advanced(result.iter, next.cursor),
                !.calls = @ + 1,
                !.returned = Handed(next),
                !.before = result.iter.cursor,
                !.fn = "next_str",
                !.last = Returned(IF next.some THEN "Some" ELSE "None")]
    /\ UNCHANGED <<machine, call>>

IterNextInteger ==
    /\ result.calls < MaxCalls
    /\ LET next == next_str(result.iter.buffer, result.iter.cursor,
                           call.checks)
           value == next_integer(result.iter.buffer, result.iter.cursor,
                                 call.argument_name, call.checks)
       IN  result' = [result EXCEPT
                !.iter = Advanced(result.iter, next.cursor),
                !.calls = @ + 1,
                !.requests = @ + 1,
                !.returned = Handed(next),
                !.before = result.iter.cursor,
                !.fn = "next_integer",
                !.last = IF value.kind = "MissingArgument"
                         THEN MissingArgument(value.argument_name,
                                              call.expected_count)
                         ELSE Returned(value.kind)]
    /\ UNCHANGED <<machine, call>>

IterExpectEnd ==
    /\ result.calls < MaxCalls
    /\ LET next == next_str(result.iter.buffer, result.iter.cursor,
                           call.checks)
           end == expect_end(result.iter.buffer, result.iter.cursor,
                             call.checks)
       IN  result' = [result EXCEPT
                !.iter = Advanced(result.iter, end.cursor),
                !.calls = @ + 1,
                !.returned = Handed(next),
                !.before = result.iter.cursor,
                !.fn = "expect_end",
                !.last = Returned(end.kind)]
    /\ UNCHANGED <<machine, call>>

IterNext == IterNextStr \/ IterNextInteger \/ IterExpectEnd

IterSpec == IterInit /\ [][IterNext]_vars

\* the arguments of a line, told from the line alone: the positions where
\* a run of characters other than the space starts, the end of the run
\* that starts at a position, and the n-th run
RunStarts(line) ==
    {i \in 1..Len(line) : line[i] # " " /\ (i = 1 \/ line[i - 1] = " ")}

RunEnd(line, i) ==
    CHOOSE j \in i..Len(line) :
        /\ \A k \in i..j : line[k] # " "
        /\ j = Len(line) \/ line[j + 1] = " "

NthStart(line, n) ==
    CHOOSE i \in RunStarts(line) :
        Cardinality({j \in RunStarts(line) : j < i}) = n - 1

Run(line, n) == SubSeq(line, NthStart(line, n), RunEnd(line, NthStart(line, n)))

\* C37: the iterator hands out the maximal runs of characters other than
\* the space, from left to right: after k calls it has handed out the
\* first k runs of the line, or all of them when there are fewer; a call
\* hands out one run or none, never an empty one; the cursor never moves
\* backwards and stands at the end of the last run handed out; once no run
\* is left every call returns none; expect_end reports too many arguments
\* exactly when a run was left
C37_MaximalRunsLeftToRight ==
    LET line == call.buffer
        runs == Cardinality(RunStarts(line))
        handed == Len(result.returned)
    IN  result.kind = "ArgIter" =>
            /\ handed = IF result.calls < runs THEN result.calls ELSE runs
            /\ \A n \in 1..handed :
                  /\ result.returned[n] = Run(line, n)
                  /\ result.returned[n] # <<>>
                  /\ \A i \in 1..Len(result.returned[n]) :
                        result.returned[n][i] # " "
            /\ result.iter.cursor >= result.before
            /\ result.iter.cursor =
                  IF handed = 0 THEN 0 ELSE RunEnd(line, NthStart(line, handed))
            /\ result.fn = "next_str" =>
                  (result.last.kind = "None" <=> result.calls > runs)
            /\ result.fn = "next_integer" =>
                  (result.last.kind = "MissingArgument"
                      <=> result.calls > runs)
            /\ result.fn = "expect_end" =>
                  (result.last.kind = "TooManyArguments"
                      <=> result.calls <= runs)

\* C37 happens: on " 7 \t" two calls hand out "7" and the tab, and the
\* third finds nothing
C37_Witness ==
    /\ call.fn = "ArgIter"
    /\ call.buffer = <<" ", "7", " ", "\t">>
    /\ result.calls = 3
    /\ result.returned = << <<"7">>, <<"\t">> >>
    /\ result.fn = "next_str" /\ result.last.kind = "None"
    /\ result.iter.cursor = 4

\* expect_end with an argument left reports it, and consumes it
ExpectEndConsumes ==
    /\ call.fn = "ArgIter"
    /\ call.buffer = <<"7", " ", "7">>
    /\ result.calls = 2
    /\ result.fn = "expect_end" /\ result.last.kind = "TooManyArguments"
    /\ result.iter.cursor = 3

\* C38: after k argument requests arg_count is k, and a MissingArgument
\* carries the expected count of the caller and the number of arguments
\* the line supplied
C38_ArgumentCounts ==
    result.kind = "ArgIter" =>
        /\ result.iter.arg_count = result.requests
        /\ result.last.kind = "MissingArgument" =>
              /\ result.last.expected_count = call.expected_count
              /\ result.last.actual_count =
                    Cardinality(RunStarts(call.buffer))

\* what does hold: arg_count stays 0, and a MissingArgument carries the
\* expected count of the caller and 99 for the actual count
ArgumentCountsAreNotKept ==
    result.kind = "ArgIter" =>
        /\ result.iter.arg_count = 0
        /\ result.last.kind = "MissingArgument" =>
              /\ result.last.expected_count = call.expected_count
              /\ result.last.actual_count = ActualCountTodo

\* an argument was requested, none was there, and the counts are these
MissingAfterARequest ==
    /\ call.fn = "ArgIter" /\ call.buffer = <<"7">>
    /\ call.expected_count = 2
    /\ result.requests = 2
    /\ result.last = MissingArgument("count", 2)

====
